---- MODULE Spec2Model ----
(***************************************************************************)
(* Fossil CUBE.  The source tree holds several revisions of the library    *)
(* that share function names:                                              *)
(*   - the GL-wrapper revision   (src/code/logic/cube.c, lines 1-640)      *)
(*   - the windowing revision    (src/unnamed/part_000)                    *)
(*   - the software-framebuffer revision (src/unnamed/part_002)            *)
(*   - the immediate-mode widget revision (src/code/logic/cube.c, from     *)
(*     line 860)                                                           *)
(* Each revision is a state machine of its own over its own variables; a   *)
(* revision's actions leave the other revisions' variables unchanged.      *)
(* Where two revisions define the same C name, the later ones carry a      *)
(* suffix (_win, _sw).                                                     *)
(*                                                                         *)
(* Conventions.  A C pointer that may be NULL is a sequence: <<>> is NULL  *)
(* and <<v>> points at v.  A C string is a sequence of one-character       *)
(* strings.  A function pointer returned by a loader is the name of the    *)
(* loader stage that produced it, or NullProc.                             *)
(***************************************************************************)
EXTENDS Integers, Sequences, FiniteSets, TLC

VARIABLES
    platform,   \* the build: "win32", "apple" or "glx" (the #if branches)
    g,          \* static fossil_cube_state g
    pgl,        \* the static pgl* function pointers, by GL entry-point name
    s_lib,      \* s_opengl32 != NULL (win32)
    s_getproc,  \* s_wglGetProcAddress / s_glXGetProcAddress != NULL
    gl_error,   \* the GL context's pending error flag (what glGetError returns)
    gl_objs,    \* the GL context's live object names, by object kind
    handles,    \* the application's handle structs, by handle type
    crashed,    \* a call went through a NULL function pointer, or trapped
    call,       \* record of the last library call: what it did and returned
    g_inited,   \* windowing revision: static int g_inited
    window,     \* windowing revision: the application's fossil_cube_window_t*
    events,     \* windowing revision: the window system's queue of pending events
    g_fc,       \* software-framebuffer revision: static fc_ctx g_fc
    heap,       \* software-framebuffer revision: the blocks malloc hands out
    ui,         \* widget revision: the Ctx inside the fossil_cube_ctx
    app,        \* widget revision: the application's place in its frame loop
    armed       \* widget revision: the button whose rectangle took the last click

\* the state of the GL-wrapper revision
glstate == <<g, pgl, s_lib, s_getproc, gl_error, gl_objs, handles>>

glvars == <<platform, g, pgl, s_lib, s_getproc, gl_error, gl_objs, handles, crashed, call>>

\* the state of the windowing revision
winvars == <<g_inited, window, events>>

\* the state of the software-framebuffer revision
swvars == <<g_fc, heap>>

uivars == <<ui, app, armed>>

vars == <<glvars, winvars, swvars, uivars>>

(***************************************************************************)
(* Result codes and GL enumerants                                          *)
(***************************************************************************)
FOSSIL_CUBE_OK == 0
FOSSIL_CUBE_ERR_NO_CONTEXT == -1
FOSSIL_CUBE_ERR_LOAD_FUNC == -2
FOSSIL_CUBE_ERR_VERSION == -3
FOSSIL_CUBE_ERR_GL_ERROR == -4
FOSSIL_CUBE_ERR_BAD_ARG == -5

GL_NO_ERROR == 0
GL_INVALID_ENUM == 1280
GL_INVALID_VALUE == 1281
GL_INVALID_OPERATION == 1282
GL_STACK_OVERFLOW == 1283
GL_OUT_OF_MEMORY == 1285
GL_INVALID_FRAMEBUFFER_OPERATION == 1286

NullProc == "NULL"

Platforms == {"win32", "apple", "glx"}

(***************************************************************************)
(* The entry points fc_load_required_symbols resolves, in its order.       *)
(***************************************************************************)
RequiredSymbols ==
    << "glCreateShader", "glShaderSource", "glCompileShader", "glGetShaderiv",
       "glGetShaderInfoLog", "glDeleteShader", "glCreateProgram", "glAttachShader",
       "glLinkProgram", "glGetProgramiv", "glGetProgramInfoLog", "glDeleteProgram",
       "glUseProgram", "glGetUniformLocation", "glUniform1i", "glUniform1f",
       "glUniform2f", "glUniform3f", "glUniform4f", "glUniformMatrix4fv",
       "glGenBuffers", "glBindBuffer", "glBufferData", "glBufferSubData",
       "glDeleteBuffers",
       "glGenVertexArrays", "glBindVertexArray", "glDeleteVertexArrays",
       "glEnableVertexAttribArray", "glDisableVertexAttribArray",
       "glVertexAttribPointer", "glVertexAttribIPointer", "glVertexAttribDivisor",
       "glDrawElements", "glDrawArrays",
       "glActiveTexture", "glGenTextures", "glBindTexture", "glTexParameteri",
       "glTexImage2D", "glTexSubImage2D", "glGenerateMipmap", "glDeleteTextures",
       "glGenFramebuffers", "glBindFramebuffer", "glFramebufferTexture2D",
       "glCheckFramebufferStatus", "glDeleteFramebuffers", "glGenRenderbuffers",
       "glBindRenderbuffer", "glRenderbufferStorage", "glFramebufferRenderbuffer",
       "glDeleteRenderbuffers" >>

SymbolNames == {RequiredSymbols[i] : i \in 1..Len(RequiredSymbols)}

(***************************************************************************)
(* Error messages.  g.last_error holds the text vsnprintf formats; it is   *)
(* kept as the format and its arguments.  NoMessage is the empty string.   *)
(***************************************************************************)
Message(fmt, s1, s2, n1, n2, n3, n4) ==
    [fmt |-> fmt, s1 |-> s1, s2 |-> s2, n1 |-> n1, n2 |-> n2, n3 |-> n3, n4 |-> n4]

NoMessage == Message("", "", "", 0, 0, 0, 0)

ZeroCaps == [major |-> 0, minor |-> 0, has_instancing |-> FALSE]

\* memset(&g, 0, sizeof(g))
ZeroState ==
    [caps |-> ZeroCaps, last_error |-> NoMessage, initialized |-> FALSE, user_loader |-> <<>>]

\* fc_set_error: the state g with the formatted message written to last_error
fc_set_error(st, msg) == [st EXCEPT !.last_error = msg]

\* fossil_cube_last_error: g.last_error[0] ? g.last_error : ""
fossil_cube_last_error == IF g.last_error.fmt # "" THEN g.last_error ELSE NoMessage

(***************************************************************************)
(* sscanf(ver, "%d.%d", &maj, &min)                                        *)
(***************************************************************************)
DigitChars == <<"0", "1", "2", "3", "4", "5", "6", "7", "8", "9">>

IsDigit(c) == \E i \in 1..Len(DigitChars) : DigitChars[i] = c

DigitVal(c) == (CHOOSE i \in 1..Len(DigitChars) : DigitChars[i] = c) - 1

IsSpace(c) == c \in {" ", "\t", "\n"}

RECURSIVE SkipSpace(_, _)
SkipSpace(s, i) == IF i <= Len(s) /\ IsSpace(s[i]) THEN SkipSpace(s, i + 1) ELSE i

RECURSIVE DigitsEnd(_, _)
DigitsEnd(s, i) == IF i <= Len(s) /\ IsDigit(s[i]) THEN DigitsEnd(s, i + 1) ELSE i

RECURSIVE DigitsValue(_, _, _, _)
DigitsValue(s, i, e, acc) ==
    IF i >= e THEN acc ELSE DigitsValue(s, i + 1, e, acc * 10 + DigitVal(s[i]))

\* one %d conversion starting at index i: leading white space is skipped, an
\* optional sign, then at least one digit
ScanInt(s, i) ==
    LET j == SkipSpace(s, i)
        signed == j <= Len(s) /\ s[j] \in {"+", "-"}
        k == IF signed THEN j + 1 ELSE j
        e == DigitsEnd(s, k)
        v == DigitsValue(s, k, e, 0)
    IN  IF e = k
        THEN [ok |-> FALSE, val |-> 0, next |-> k]
        ELSE [ok |-> TRUE, val |-> IF signed /\ s[j] = "-" THEN 0 - v ELSE v, next |-> e]

\* the number of conversions made and the values stored
sscanf_d_dot_d(s) ==
    LET a == ScanInt(s, 1)
    IN  IF ~a.ok THEN [n |-> 0, maj |-> 0, min |-> 0]
        ELSE IF ~(a.next <= Len(s) /\ s[a.next] = ".")
             THEN [n |-> 1, maj |-> a.val, min |-> 0]
             ELSE LET b == ScanInt(s, a.next + 1)
                  IN  IF ~b.ok THEN [n |-> 1, maj |-> a.val, min |-> 0]
                      ELSE [n |-> 2, maj |-> a.val, min |-> b.val]

(***************************************************************************)
(* Loader.  A loader environment env says what the platform can resolve:   *)
(*   env.lib      LoadLibraryA("opengl32.dll") / dlopen("libGL.so.1") works *)
(*   env.getproc  wglGetProcAddress / glXGetProcAddress[ARB] is found      *)
(*   env.ext      names the *GetProcAddress stage resolves                 *)
(*   env.core     names GetProcAddress(opengl32) / dlsym(RTLD_DEFAULT)     *)
(*                resolves                                                 *)
(*   env.version  glGetString(GL_VERSION): <<>> (NULL) or <<string>>       *)
(* A user loader is <<>> (NULL) or <<S>>, S the names it resolves.         *)
(***************************************************************************)
\* fc_load_symbol_default with the loader caches c = [lib, getproc]; returns the
\* pointer, the caches, and which loaders were asked
fc_load_symbol_default(name, user_loader, c, env) ==
    IF user_loader # <<>> /\ name \in user_loader[1]
    THEN [p |-> "custom", lib |-> c.lib, getproc |-> c.getproc,
          custom |-> TRUE, builtin |-> FALSE]
    ELSE
      LET asked == user_loader # <<>> IN
      CASE platform = "win32" ->
             LET lib == c.lib \/ env.lib IN
             IF ~lib
             THEN [p |-> NullProc, lib |-> FALSE, getproc |-> c.getproc,
                   custom |-> asked, builtin |-> TRUE]
             ELSE LET gp == c.getproc \/ env.getproc IN
                  [p |-> IF gp /\ name \in env.ext THEN "wgl"
                         ELSE IF name \in env.core THEN "opengl32" ELSE NullProc,
                   lib |-> TRUE, getproc |-> gp, custom |-> asked, builtin |-> TRUE]
        [] platform = "apple" ->
             [p |-> NullProc, lib |-> c.lib, getproc |-> c.getproc,
              custom |-> asked, builtin |-> TRUE]
        [] OTHER ->
             LET gp == c.getproc \/ (env.lib /\ env.getproc) IN
             [p |-> IF gp /\ name \in env.ext THEN "glx"
                    ELSE IF name \in env.core THEN "dlsym" ELSE NullProc,
              lib |-> c.lib, getproc |-> gp, custom |-> asked, builtin |-> TRUE]

\* a load that installs whatever dlsym finds and never fails, on every platform
fc_load_tolerant(name, user_loader, acc, env) ==
    [acc EXCEPT !.pgl[name] = IF name \in env.core THEN "dlsym" ELSE NullProc,
                !.ok = TRUE,
                !.tried = @ \cup {name},
                !.asked_builtin = @ \cup {name}]

\* fc_load(&p<name>, #name) on the loading state acc; acc.ok becomes its result.
\* acc.tried, acc.asked_custom and acc.asked_builtin record the names fc_load
\* was called for, the names the user loader was called for and the names
\* looked up on the platform
fc_load(name, user_loader, acc, env) ==
    IF platform = "apple"
    THEN [acc EXCEPT !.pgl[name] = IF name \in env.core THEN "dlsym" ELSE NullProc,
                     !.ok = TRUE,
                     !.tried = @ \cup {name},
                     !.asked_builtin = @ \cup {name}]
    ELSE LET r == fc_load_symbol_default(name, user_loader,
                                         [lib |-> acc.lib, getproc |-> acc.getproc], env)
             a == [acc EXCEPT !.lib = r.lib, !.getproc = r.getproc,
                              !.tried = @ \cup {name},
                              !.asked_custom = IF r.custom THEN @ \cup {name} ELSE @,
                              !.asked_builtin = IF r.builtin THEN @ \cup {name} ELSE @]
         IN  IF r.p = NullProc THEN [a EXCEPT !.ok = FALSE]
             ELSE [a EXCEPT !.pgl[name] = r.p, !.ok = TRUE]

\* the FC_LOAD lines from the i-th on: ok = ok && fc_load(...)
RECURSIVE FC_LOAD(_, _, _, _)
FC_LOAD(i, user_loader, acc, env) ==
    IF i > Len(RequiredSymbols) THEN acc
    ELSE IF ~acc.ok THEN FC_LOAD(i + 1, user_loader, acc, env)
    ELSE FC_LOAD(i + 1, user_loader, fc_load(RequiredSymbols[i], user_loader, acc, env), env)

fc_load_required_symbols(user_loader, env) ==
    LET acc == FC_LOAD(1, user_loader,
                       [ok |-> TRUE, pgl |-> pgl, lib |-> s_lib, getproc |-> s_getproc,
                        tried |-> {}, asked_custom |-> {}, asked_builtin |-> {}], env)
    IN  IF platform = "apple" THEN [acc EXCEPT !.ok = TRUE] ELSE acc

\* fc_query_caps with the pointer table tab just loaded
fc_query_caps(ver, tab) ==
    LET r == IF ver = <<>> THEN [n |-> 0, maj |-> 0, min |-> 0] ELSE sscanf_d_dot_d(ver[1])
    IN  [major |-> IF r.n = 2 THEN r.maj ELSE 0,
         minor |-> IF r.n = 2 THEN r.min ELSE 0,
         has_instancing |-> tab["glVertexAttribDivisor"] # NullProc]

\* fossil_cube_get_caps: <<>> is NULL
fossil_cube_get_caps == IF g.initialized THEN <<g.caps>> ELSE <<>>

(***************************************************************************)
(* The record of a call                                                    *)
(***************************************************************************)
NullCfg == <<>>

NoEnv == [lib |-> FALSE, getproc |-> FALSE, ext |-> {}, core |-> {}, version |-> <<>>]

NoCall ==
    [op |-> "none", ret |-> 0, set_error |-> FALSE, gl_calls |-> <<>>,
     tried |-> {}, asked_custom |-> {}, asked_builtin |-> {}, queried_caps |-> FALSE,
     version_checked |-> FALSE, cfg |-> NullCfg, env |-> NoEnv, args |-> [none |-> TRUE]]

MsgLoadFailed ==
    Message("Failed to load required OpenGL entry points (no modern GL?).", "", "", 0, 0, 0, 0)

MsgVersion(have_major, have_minor, need_major, need_minor) ==
    Message("Insufficient GL version. Have %d.%d, need %d.%d.", "", "",
            have_major, have_minor, need_major, need_minor)

(***************************************************************************)
(* Lifecycle                                                               *)
(***************************************************************************)
\* the version test of fossil_cube_init
VersionTooOld(caps, c) ==
    \/ caps.major < c.require_gl_version_major
    \/ (caps.major = c.require_gl_version_major /\ caps.minor < c.require_gl_version_minor)

\* a version check made whenever a configuration is given
VersionCheckedWithCfg(cfg) == cfg # <<>>

\* whether fossil_cube_init compares versions
VersionChecked(cfg) == cfg # <<>> /\ cfg[1].require_gl_version_major > 0

\* an init that keeps the state of the call before
InitKeepsState(cfg) ==
    [g EXCEPT !.user_loader = IF cfg # <<>> THEN cfg[1].custom_loader ELSE <<>>]

\* the state every fossil_cube_init starts from
InitEntryState(cfg) ==
    [ZeroState EXCEPT !.user_loader = IF cfg # <<>> THEN cfg[1].custom_loader ELSE <<>>]

fossil_cube_init(cfg, env) ==
    /\ ~crashed
    /\ \E ld \in {fc_load_required_symbols(InitEntryState(cfg).user_loader, env)} :
       LET g0 == InitEntryState(cfg)
           c0 == [NoCall EXCEPT !.op = "init", !.cfg = cfg, !.env = env,
                                !.args = [initialized_before |-> g.initialized],
                                !.tried = ld.tried,
                                !.asked_custom = ld.asked_custom,
                                !.asked_builtin = ld.asked_builtin]
           caps == fc_query_caps(env.version, ld.pgl)
           g1 == [g0 EXCEPT !.caps = caps]
       IN  /\ gl_error' = GL_NO_ERROR
           /\ pgl' = ld.pgl
           /\ s_lib' = ld.lib
           /\ s_getproc' = ld.getproc
           /\ IF ~ld.ok
              THEN /\ g' = fc_set_error(g0, MsgLoadFailed)
                   /\ call' = [c0 EXCEPT !.ret = FOSSIL_CUBE_ERR_LOAD_FUNC, !.set_error = TRUE]
              ELSE IF VersionChecked(cfg) /\ VersionTooOld(caps, cfg[1])
              THEN /\ g' = fc_set_error(g1, MsgVersion(caps.major, caps.minor,
                                                       cfg[1].require_gl_version_major,
                                                       cfg[1].require_gl_version_minor))
                   /\ call' = [c0 EXCEPT !.ret = FOSSIL_CUBE_ERR_VERSION, !.set_error = TRUE,
                                         !.queried_caps = TRUE, !.version_checked = TRUE]
              ELSE /\ g' = [g1 EXCEPT !.initialized = TRUE]
                   /\ call' = [c0 EXCEPT !.ret = FOSSIL_CUBE_OK, !.queried_caps = TRUE,
                                         !.version_checked = VersionChecked(cfg)]
    /\ UNCHANGED <<platform, gl_objs, handles, crashed>>

\* the state fossil_cube_shutdown leaves
ShutdownState == ZeroState

fossil_cube_shutdown ==
    /\ ~crashed
    /\ g' = ShutdownState
    /\ call' = [NoCall EXCEPT !.op = "shutdown"]
    /\ UNCHANGED <<platform, pgl, s_lib, s_getproc, gl_error, gl_objs, handles, crashed>>

(***************************************************************************)
(* The GL context as the wrapper sees it                                   *)
(***************************************************************************)
\* names a GL object may get, per kind (the model's bound on GLuint names)
MaxName == 1

\* live GL objects over all kinds (the model's bound on the driver's resources)
MaxObjects == 1

ObjectKinds == {"shader", "program", "buffer", "vao", "texture", "framebuffer", "renderbuffer"}

HandleTypes == {"shader", "program", "vbo", "ebo", "vao", "tex2d", "fbo"}

\* the GL object kind behind each handle type
KindOf(h) ==
    CASE h = "vbo" -> "buffer"
      [] h = "ebo" -> "buffer"
      [] h = "tex2d" -> "texture"
      [] h = "fbo" -> "framebuffer"
      [] OTHER -> h

NoHandle == [id |-> 0, type |-> 0]

GL_FRAGMENT_SHADER == 35632
GL_VERTEX_SHADER == 35633

LiveCount(objs) == Cardinality({<<k, n>> \in ObjectKinds \X (1..MaxName) : n \in objs[k]})

\* what glCreate* / glGen* may hand back: 0 (nothing created) or an unused name
NewNames(objs, kind) ==
    {0} \cup (IF LiveCount(objs) < MaxObjects THEN (1..MaxName) \ objs[kind] ELSE {})

\* the live objects after creating n of a kind (n = 0: nothing was created)
Created(objs, kind, n) == IF n = 0 THEN objs ELSE [objs EXCEPT ![kind] = @ \cup {n}]

\* the objects left when a glDelete* is forgotten
NotDeleted(objs, kind, n) == objs

\* the live objects after glDelete* of n
Deleted(objs, kind, n) == [objs EXCEPT ![kind] = @ \ {n}]

\* an error e raised while flag is pending: the first error stays recorded
Raise(flag, e) == IF flag # GL_NO_ERROR THEN flag ELSE e

\* what glGetError can return: no error, the five codes the switch of
\* fossil_cube_check_gl_error names, and one it does not name
RaisedErrors ==
    {GL_NO_ERROR, GL_INVALID_ENUM, GL_INVALID_VALUE, GL_INVALID_OPERATION,
     GL_STACK_OVERFLOW, GL_OUT_OF_MEMORY, GL_INVALID_FRAMEBUFFER_OPERATION}

\* a driver that raises one kind of error or none
SomeErrors == {GL_NO_ERROR, GL_INVALID_ENUM}

Loaded(names) == \A n \in names : pgl[n] # NullProc

GLCall(fn, id) == [fn |-> fn, id |-> id]

\* a call through a NULL function pointer: the process dies in the call
NullCall(op) ==
    /\ crashed' = TRUE
    /\ call' = [NoCall EXCEPT !.op = op]
    /\ UNCHANGED <<platform, g, pgl, s_lib, s_getproc, gl_error, gl_objs, handles>>

(***************************************************************************)
(* Utility                                                                 *)
(***************************************************************************)
\* the switch of fossil_cube_check_gl_error
GlErrorName(err) ==
    CASE err = GL_INVALID_ENUM -> "GL_INVALID_ENUM"
      [] err = GL_INVALID_VALUE -> "GL_INVALID_VALUE"
      [] err = GL_INVALID_OPERATION -> "GL_INVALID_OPERATION"
      [] err = GL_INVALID_FRAMEBUFFER_OPERATION -> "GL_INVALID_FRAMEBUFFER_OPERATION"
      [] err = GL_OUT_OF_MEMORY -> "GL_OUT_OF_MEMORY"
      [] OTHER -> "UNKNOWN"

\* where ? where : "GL"
WhereOrGL(where) == IF where # <<>> THEN where[1] ELSE "GL"

\* a check that reports the error without writing the message
check_gl_error_silent(st, err, where) ==
    [g |-> st, ret |-> IF err = GL_NO_ERROR THEN 0 ELSE 1]

\* fossil_cube_check_gl_error on state st when glGetError returns err:
\* the state left and the value returned
check_gl_error(st, err, where) ==
    IF err = GL_NO_ERROR
    THEN [g |-> st, ret |-> 0]
    ELSE [g |-> fc_set_error(st, Message("%s: %s (0x%x)", WhereOrGL(where),
                                         GlErrorName(err), err, 0, 0, 0)),
          ret |-> 1]

\* ... ? FOSSIL_CUBE_ERR_GL_ERROR : FOSSIL_CUBE_OK
ResultOf(chk) == IF chk.ret # 0 THEN FOSSIL_CUBE_ERR_GL_ERROR ELSE FOSSIL_CUBE_OK

fossil_cube_check_gl_error(where) ==
    /\ ~crashed
    /\ LET chk == check_gl_error(g, gl_error, where)
       IN  /\ g' = chk.g
           /\ gl_error' = GL_NO_ERROR
           /\ call' = [NoCall EXCEPT !.op = "check_gl_error", !.ret = chk.ret,
                                     !.set_error = (chk.ret # 0),
                                     !.args = [err |-> gl_error, where |-> where]]
    /\ UNCHANGED <<platform, pgl, s_lib, s_getproc, gl_objs, handles, crashed>>

\* the wrappers that only forward to one GL call (program_use, bind_*, draw_*,
\* uniform_*, vertex_attrib*, tex2d_params, ...): fn is the entry point called,
\* e the error the driver raises in it
PassThroughs ==
    {"glUseProgram", "glBindVertexArray", "glBindBuffer", "glDrawArrays",
     "glDrawElements", "glUniform1i", "glBindTexture", "glBindFramebuffer"}

PassThrough(fn, e) ==
    /\ ~crashed
    /\ IF ~Loaded({fn}) THEN NullCall(fn)
       ELSE /\ gl_error' = Raise(gl_error, e)
            /\ call' = [NoCall EXCEPT !.op = fn]
            /\ UNCHANGED <<platform, g, pgl, s_lib, s_getproc, gl_objs, handles, crashed>>

(***************************************************************************)
(* Shaders and programs.  A handle argument is "NULL" or the handle type   *)
(* naming the application's struct; src and info_log are <<>> or <<s>>.    *)
(***************************************************************************)
MsgShaderFailed == Message("Shader compilation failed.", "", "", 0, 0, 0, 0)

MsgProgramFailed == Message("Program link failed.", "", "", 0, 0, 0, 0)

MsgFramebuffer(status) == Message("Framebuffer incomplete (0x%x).", "", "", status, 0, 0, 0)

\* a destroy function that forgets to clear the id
HandleKeptOnDestroy(h) == h

\* the handle struct after a destroy function has deleted its object
HandleAfterDestroy(h) == [h EXCEPT !.id = 0]

\* whether a destroy function acts on handle argument h: if (h && h->id)
DestroyActs(h) == h # "NULL" /\ handles[h].id # 0

\* the common body of the destroy functions: op is the function, h its
\* argument, delfn the GL entry point it calls
DestroyHandle(op, h, delfn) ==
    /\ ~crashed
    /\ IF ~DestroyActs(h)
       THEN /\ call' = [NoCall EXCEPT !.op = op, !.args = [handle |-> h, id |-> 0]]
            /\ UNCHANGED <<platform, g, pgl, s_lib, s_getproc, gl_error, gl_objs,
                           handles, crashed>>
       ELSE IF ~Loaded({delfn}) THEN NullCall(op)
       ELSE /\ gl_objs' = Deleted(gl_objs, KindOf(h), handles[h].id)
            /\ handles' = [handles EXCEPT ![h] = HandleAfterDestroy(@)]
            /\ call' = [NoCall EXCEPT !.op = op,
                                      !.args = [handle |-> h, id |-> handles[h].id],
                                      !.gl_calls = <<GLCall(delfn, handles[h].id)>>]
            /\ UNCHANGED <<platform, g, pgl, s_lib, s_getproc, gl_error, crashed>>

\* the entry points fossil_cube_shader_create calls on its way
ShaderCreateCalls(info_log, info_log_size, ok) ==
    {"glCreateShader", "glShaderSource", "glCompileShader", "glGetShaderiv"}
    \cup (IF info_log # <<>> /\ info_log_size > 0 THEN {"glGetShaderInfoLog"} ELSE {})
    \cup (IF ~ok THEN {"glDeleteShader"} ELSE {})

\* the shader handle a successful fossil_cube_shader_create writes
ShaderCreated(sh, type) == [id |-> sh, type |-> type]

\* sh: what glCreateShader returns; compiled: GL_COMPILE_STATUS; e: error raised
fossil_cube_shader_create(type, src, out_shader, info_log, info_log_size, sh, compiled, e) ==
    /\ ~crashed
    /\ sh \in NewNames(gl_objs, "shader")
    /\ LET ok == sh # 0 /\ compiled
           a == [type |-> type, src |-> src, out |-> out_shader, info_log |-> info_log,
                 info_log_size |-> info_log_size]
       IN
       IF src = <<>> \/ out_shader = "NULL"
       THEN /\ call' = [NoCall EXCEPT !.op = "shader_create", !.args = a,
                                      !.ret = FOSSIL_CUBE_ERR_BAD_ARG]
            /\ UNCHANGED <<platform, g, pgl, s_lib, s_getproc, gl_error, gl_objs,
                           handles, crashed>>
       ELSE IF ~Loaded(ShaderCreateCalls(info_log, info_log_size, ok))
       THEN NullCall("shader_create")
       ELSE /\ gl_error' = Raise(gl_error, e)
            /\ IF ~ok
               THEN /\ gl_objs' = Deleted(Created(gl_objs, "shader", sh), "shader", sh)
                    /\ g' = fc_set_error(g, MsgShaderFailed)
                    /\ handles' = handles
                    /\ call' = [NoCall EXCEPT !.op = "shader_create", !.args = a,
                                   !.ret = FOSSIL_CUBE_ERR_GL_ERROR, !.set_error = TRUE,
                                   !.gl_calls = <<GLCall("glCreateShader", sh),
                                                  GLCall("glDeleteShader", sh)>>]
               ELSE /\ gl_objs' = Created(gl_objs, "shader", sh)
                    /\ g' = g
                    /\ handles' = [handles EXCEPT ![out_shader] = ShaderCreated(sh, type)]
                    /\ call' = [NoCall EXCEPT !.op = "shader_create", !.args = a,
                                   !.ret = FOSSIL_CUBE_OK,
                                   !.gl_calls = <<GLCall("glCreateShader", sh)>>]
            /\ UNCHANGED <<platform, pgl, s_lib, s_getproc, crashed>>

fossil_cube_shader_destroy(sh) == DestroyHandle("shader_destroy", sh, "glDeleteShader")

\* the entry points fossil_cube_program_link calls on its way
ProgramLinkCalls(attach, info_log, info_log_size, ok) ==
    {"glCreateProgram", "glLinkProgram", "glGetProgramiv"}
    \cup (IF attach THEN {"glAttachShader"} ELSE {})
    \cup (IF info_log # <<>> /\ info_log_size > 0 THEN {"glGetProgramInfoLog"} ELSE {})
    \cup (IF ~ok THEN {"glDeleteProgram"} ELSE {})

\* the program handle a successful fossil_cube_program_link writes
ProgramLinked(h, prg) == [h EXCEPT !.id = prg]

\* shaders: <<>> (NULL) or <<h>>, an array holding the application's shader
\* handle h; prg: what glCreateProgram returns; linked: GL_LINK_STATUS
fossil_cube_program_link(shaders, count, out_prog, info_log, info_log_size, prg, linked, e) ==
    /\ ~crashed
    /\ prg \in NewNames(gl_objs, "program")
    /\ shaders = <<>> \/ count <= Len(shaders)
    /\ LET ok == prg # 0 /\ linked
           attach == \E i \in 1..count : handles[shaders[i]].id # 0
           a == [shaders |-> shaders, count |-> count, out |-> out_prog,
                 info_log |-> info_log, info_log_size |-> info_log_size]
       IN
       IF shaders = <<>> \/ count <= 0 \/ out_prog = "NULL"
       THEN /\ call' = [NoCall EXCEPT !.op = "program_link", !.args = a,
                                      !.ret = FOSSIL_CUBE_ERR_BAD_ARG]
            /\ UNCHANGED <<platform, g, pgl, s_lib, s_getproc, gl_error, gl_objs,
                           handles, crashed>>
       ELSE IF ~Loaded(ProgramLinkCalls(attach, info_log, info_log_size, ok))
       THEN NullCall("program_link")
       ELSE /\ gl_error' = Raise(gl_error, e)
            /\ IF ~ok
               THEN /\ gl_objs' = Deleted(Created(gl_objs, "program", prg), "program", prg)
                    /\ g' = fc_set_error(g, MsgProgramFailed)
                    /\ handles' = handles
                    /\ call' = [NoCall EXCEPT !.op = "program_link", !.args = a,
                                   !.ret = FOSSIL_CUBE_ERR_GL_ERROR, !.set_error = TRUE,
                                   !.gl_calls = <<GLCall("glCreateProgram", prg),
                                                  GLCall("glDeleteProgram", prg)>>]
               ELSE /\ gl_objs' = Created(gl_objs, "program", prg)
                    /\ g' = g
                    /\ handles' = [handles EXCEPT ![out_prog] = ProgramLinked(@, prg)]
                    /\ call' = [NoCall EXCEPT !.op = "program_link", !.args = a,
                                   !.ret = FOSSIL_CUBE_OK,
                                   !.gl_calls = <<GLCall("glCreateProgram", prg)>>]
            /\ UNCHANGED <<platform, pgl, s_lib, s_getproc, crashed>>

fossil_cube_program_destroy(prg) == DestroyHandle("program_destroy", prg, "glDeleteProgram")

(***************************************************************************)
(* Buffers, vertex arrays, textures, framebuffers                          *)
(***************************************************************************)
\* the handle a create function writes: out->id = id
HandleCreated(h, id) == [h EXCEPT !.id = id]

\* the common body of vbo_create, ebo_create, vao_create and tex2d_create once
\* the arguments are accepted: glGen* hands back id, the driver raises e, the
\* handle is written and fossil_cube_check_gl_error(where) decides the result
GenAndCheck(op, out, genfn, fns, where, id, e, a) ==
    IF ~Loaded({genfn} \cup fns) THEN NullCall(op)
    ELSE LET chk == check_gl_error(g, Raise(gl_error, e), <<where>>)
         IN  /\ gl_objs' = Created(gl_objs, KindOf(out), id)
             /\ handles' = [handles EXCEPT ![out] = HandleCreated(@, id)]
             /\ g' = chk.g
             /\ gl_error' = GL_NO_ERROR
             /\ call' = [NoCall EXCEPT !.op = op, !.args = a, !.ret = ResultOf(chk),
                                       !.set_error = (chk.ret # 0),
                                       !.gl_calls = <<GLCall(genfn, id)>>]
             /\ UNCHANGED <<platform, pgl, s_lib, s_getproc, crashed>>

BadArg(op, a) ==
    /\ call' = [NoCall EXCEPT !.op = op, !.args = a, !.ret = FOSSIL_CUBE_ERR_BAD_ARG]
    /\ UNCHANGED <<platform, g, pgl, s_lib, s_getproc, gl_error, gl_objs, handles, crashed>>

fossil_cube_vbo_create(out, id, e) ==
    /\ ~crashed
    /\ id \in NewNames(gl_objs, "buffer")
    /\ IF out = "NULL" THEN BadArg("vbo_create", [out |-> out])
       ELSE GenAndCheck("vbo_create", out, "glGenBuffers", {"glBindBuffer", "glBufferData"},
                        "vbo_create", id, e, [out |-> out])

fossil_cube_ebo_create(out, id, e) ==
    /\ ~crashed
    /\ id \in NewNames(gl_objs, "buffer")
    /\ IF out = "NULL" THEN BadArg("ebo_create", [out |-> out])
       ELSE GenAndCheck("ebo_create", out, "glGenBuffers", {"glBindBuffer", "glBufferData"},
                        "ebo_create", id, e, [out |-> out])

fossil_cube_buffer_subdata(e) ==
    /\ ~crashed
    /\ IF ~Loaded({"glBufferSubData"}) THEN NullCall("buffer_subdata")
       ELSE LET chk == check_gl_error(g, Raise(gl_error, e), <<"buffer_subdata">>)
            IN  /\ g' = chk.g
                /\ gl_error' = GL_NO_ERROR
                /\ call' = [NoCall EXCEPT !.op = "buffer_subdata", !.ret = ResultOf(chk),
                                          !.set_error = (chk.ret # 0)]
                /\ UNCHANGED <<platform, pgl, s_lib, s_getproc, gl_objs, handles, crashed>>

fossil_cube_vbo_destroy(v) == DestroyHandle("vbo_destroy", v, "glDeleteBuffers")

fossil_cube_ebo_destroy(eb) == DestroyHandle("ebo_destroy", eb, "glDeleteBuffers")

fossil_cube_vao_create(out, id, e) ==
    /\ ~crashed
    /\ id \in NewNames(gl_objs, "vao")
    /\ IF out = "NULL" THEN BadArg("vao_create", [out |-> out])
       ELSE GenAndCheck("vao_create", out, "glGenVertexArrays", {}, "vao_create", id, e,
                        [out |-> out])

fossil_cube_vao_destroy(vao) == DestroyHandle("vao_destroy", vao, "glDeleteVertexArrays")

fossil_cube_tex2d_create(w, h, out, id, e) ==
    /\ ~crashed
    /\ id \in NewNames(gl_objs, "texture")
    /\ IF out = "NULL" \/ w <= 0 \/ h <= 0
       THEN BadArg("tex2d_create", [out |-> out, w |-> w, h |-> h])
       ELSE GenAndCheck("tex2d_create", out, "glGenTextures",
                        {"glBindTexture", "glTexParameteri", "glTexImage2D"},
                        "tex2d_create", id, e, [out |-> out, w |-> w, h |-> h])

fossil_cube_tex2d_destroy(t) == DestroyHandle("tex2d_destroy", t, "glDeleteTextures")

GL_FRAMEBUFFER_COMPLETE == 36053
GL_FRAMEBUFFER_UNSUPPORTED == 36061

\* the entry points fossil_cube_fbo_create_color_tex calls on its way
FboCreateCalls(depth_bits, complete, rbo, fbo) ==
    {"glGenFramebuffers", "glBindFramebuffer", "glFramebufferTexture2D",
     "glCheckFramebufferStatus"}
    \cup (IF depth_bits > 0
          THEN {"glGenRenderbuffers", "glBindRenderbuffer", "glRenderbufferStorage",
                "glFramebufferRenderbuffer"}
          ELSE {})
    \cup (IF ~complete /\ rbo # 0 THEN {"glDeleteRenderbuffers"} ELSE {})
    \cup (IF ~complete /\ fbo # 0 THEN {"glDeleteFramebuffers"} ELSE {})

\* color_tex: the id in the texture struct passed by value; fbo, rbo: what
\* glGenFramebuffers and glGenRenderbuffers hand back; status: what
\* glCheckFramebufferStatus returns
fossil_cube_fbo_create_color_tex(color_tex, depth_bits, out, fbo, rbo, status, e) ==
    /\ ~crashed
    /\ fbo \in NewNames(gl_objs, "framebuffer")
    /\ rbo \in (IF depth_bits > 0
                THEN NewNames(Created(gl_objs, "framebuffer", fbo), "renderbuffer")
                ELSE {0})
    /\ LET complete == status = GL_FRAMEBUFFER_COMPLETE
           a == [out |-> out, color_tex |-> color_tex, depth_bits |-> depth_bits]
           made == Created(Created(gl_objs, "framebuffer", fbo), "renderbuffer", rbo)
           gens == <<GLCall("glGenFramebuffers", fbo)>>
                   \o (IF depth_bits > 0 THEN <<GLCall("glGenRenderbuffers", rbo)>> ELSE <<>>)
           dels == (IF rbo # 0 THEN <<GLCall("glDeleteRenderbuffers", rbo)>> ELSE <<>>)
                   \o (IF fbo # 0 THEN <<GLCall("glDeleteFramebuffers", fbo)>> ELSE <<>>)
       IN
       IF out = "NULL" \/ color_tex = 0
       THEN BadArg("fbo_create_color_tex", a)
       ELSE IF ~Loaded(FboCreateCalls(depth_bits, complete, rbo, fbo))
       THEN NullCall("fbo_create_color_tex")
       ELSE /\ gl_error' = Raise(gl_error, e)
            /\ IF ~complete
               THEN /\ gl_objs' = Deleted(Deleted(made, "renderbuffer", rbo), "framebuffer", fbo)
                    /\ g' = fc_set_error(g, MsgFramebuffer(status))
                    /\ handles' = handles
                    /\ call' = [NoCall EXCEPT !.op = "fbo_create_color_tex", !.args = a,
                                   !.ret = FOSSIL_CUBE_ERR_GL_ERROR, !.set_error = TRUE,
                                   !.gl_calls = gens \o dels]
               ELSE /\ gl_objs' = made
                    /\ g' = g
                    /\ handles' = [handles EXCEPT ![out] = HandleCreated(@, fbo)]
                    /\ call' = [NoCall EXCEPT !.op = "fbo_create_color_tex", !.args = a,
                                   !.ret = FOSSIL_CUBE_OK, !.gl_calls = gens]
            /\ UNCHANGED <<platform, pgl, s_lib, s_getproc, crashed>>

fossil_cube_fbo_destroy(f) == DestroyHandle("fbo_destroy", f, "glDeleteFramebuffers")

(***************************************************************************)
(* The windowing revision (src/unnamed/part_000).  The application holds   *)
(* one window pointer, window: <<>> (NULL) or <<w>> with w the fields of   *)
(* fossil_cube_window_t.  A configuration is <<>> (NULL) or <<c>>.  The    *)
(* header of this revision is not in the tree: result codes are named, not *)
(* numbered.  events is the queue XPending/XNextEvent (PeekMessage) read:  *)
(*   "close"      ClientMessage carrying WM_DELETE_WINDOW / WM_CLOSE       *)
(*   "client"     any other message                                        *)
(*   "configure"  ConfigureNotify / WM_SIZE with the new size w, h         *)
(***************************************************************************)
\* the longest event queue the model lets the window system build up
MaxQueue == 2

\* cfg->width > 0 ? cfg->width : 640, and the same for the height
DefaultWidth == 640

DefaultHeight == 480

WindowConfig(width, height, double_buffer) ==
    <<[width |-> width, height |-> height, double_buffer |-> double_buffer]>>

\* the stages at which cube_create_platform can fail, with the code it reports
CreateErrors ==
    [win32 |-> [window |-> "FOSSIL_CUBE_ERR_CREATE_WINDOW",
                pixelformat |-> "FOSSIL_CUBE_ERR_CREATE_CONTEXT",
                context |-> "FOSSIL_CUBE_ERR_CREATE_CONTEXT",
                current |-> "FOSSIL_CUBE_ERR_MAKE_CURRENT"],
     apple |-> [pixelformat |-> "FOSSIL_CUBE_ERR_CREATE_CONTEXT",
                context |-> "FOSSIL_CUBE_ERR_CREATE_CONTEXT",
                pbuffer |-> "FOSSIL_CUBE_ERR_CREATE_CONTEXT",
                setpbuffer |-> "FOSSIL_CUBE_ERR_CREATE_CONTEXT",
                current |-> "FOSSIL_CUBE_ERR_MAKE_CURRENT"],
     glx |-> [display |-> "FOSSIL_CUBE_ERR_NO_DISPLAY",
              visual |-> "FOSSIL_CUBE_ERR_CREATE_CONTEXT",
              window |-> "FOSSIL_CUBE_ERR_CREATE_WINDOW",
              context |-> "FOSSIL_CUBE_ERR_CREATE_CONTEXT",
              current |-> "FOSSIL_CUBE_ERR_MAKE_CURRENT"]]

\* cube_create_platform reporting FOSSIL_CUBE_OK when make-current fails
cube_create_platform_ok_on_failure(c, fail) ==
    IF fail # "none"
    THEN [win |-> <<>>,
          err |-> IF fail = "current" THEN "FOSSIL_CUBE_OK" ELSE CreateErrors[platform][fail]]
    ELSE [win |-> <<[width |-> IF c.width > 0 THEN c.width ELSE DefaultWidth,
                     height |-> IF c.height > 0 THEN c.height ELSE DefaultHeight,
                     double_buffer |-> IF platform = "glx" THEN TRUE ELSE c.double_buffer,
                     headless |-> (platform = "apple"),
                     drawable |-> TRUE]>>,
          err |-> "FOSSIL_CUBE_OK"]

\* cube_create_platform: fail is "none" or the stage that fails
cube_create_platform(c, fail) ==
    IF fail # "none"
    THEN [win |-> <<>>, err |-> CreateErrors[platform][fail]]
    ELSE [win |-> <<[width |-> IF c.width > 0 THEN c.width ELSE DefaultWidth,
                     height |-> IF c.height > 0 THEN c.height ELSE DefaultHeight,
                     double_buffer |-> IF platform = "glx" THEN TRUE ELSE c.double_buffer,
                     headless |-> (platform = "apple"),
                     drawable |-> TRUE]>>,
          err |-> "FOSSIL_CUBE_OK"]

WinUnchanged == UNCHANGED <<platform, glstate, crashed, swvars, uivars>>

fossil_cube_init_win ==
    /\ ~crashed
    /\ g_inited' = TRUE
    /\ call' = [NoCall EXCEPT !.op = "init_win", !.args = [result |-> "FOSSIL_CUBE_OK"]]
    /\ UNCHANGED <<window, events>>
    /\ WinUnchanged

fossil_cube_shutdown_win ==
    /\ ~crashed
    /\ g_inited' = FALSE
    /\ call' = [NoCall EXCEPT !.op = "shutdown_win"]
    /\ UNCHANGED <<window, events>>
    /\ WinUnchanged

\* fossil_cube_create(cfg, out_err), called while the application holds no
\* window.  out_err: whether the pointer is non-NULL; err is what the call
\* stores through it, or in its dummy when it is NULL.  fail is "none", the
\* stage of cube_create_platform that fails, or "alloc": calloc returns NULL
\* and the store to win->width through it traps.
fossil_cube_create(cfg, out_err, fail) ==
    /\ ~crashed
    /\ window = <<>>
    /\ cfg = <<>> => fail = "none"
    /\ g_inited' = TRUE
    /\ IF fail = "alloc"
       THEN /\ crashed' = TRUE
            /\ call' = [NoCall EXCEPT !.op = "trap", !.args = [in |-> "create"]]
            /\ UNCHANGED window
       ELSE LET r == IF cfg = <<>> THEN [win |-> <<>>, err |-> "FOSSIL_CUBE_ERR_GENERIC"]
                     ELSE cube_create_platform(cfg[1], fail)
            IN  /\ window' = r.win
                /\ call' = [NoCall EXCEPT !.op = "create",
                               !.args = [cfg |-> cfg, fail |-> fail, out_err |-> out_err,
                                         err |-> r.err, inited_before |-> g_inited]]
                /\ UNCHANGED crashed
    /\ events' = <<>>
    /\ UNCHANGED <<platform, glstate, swvars, uivars>>

\* fossil_cube_destroy(win): win is the application's pointer or NULL
fossil_cube_destroy(usewin) ==
    /\ ~crashed
    /\ window' = IF usewin THEN <<>> ELSE window
    /\ events' = IF usewin THEN <<>> ELSE events
    /\ call' = [NoCall EXCEPT !.op = "destroy", !.args = [win |-> usewin]]
    /\ UNCHANGED g_inited
    /\ WinUnchanged

\* memset(out_events, 0, sizeof(*out_events))
ZeroEvents == [should_close |-> FALSE, resized |-> FALSE, width |-> 0, height |-> 0]

\* the X11 loop of cube_poll_events_platform over the queue q
RECURSIVE XPoll(_, _, _)
XPoll(q, w, out) ==
    IF q = <<>> THEN [win |-> w, out |-> out]
    ELSE LET e == Head(q) IN
         CASE e.type = "close" -> XPoll(Tail(q), w, [out EXCEPT !.should_close = TRUE])
           [] e.type = "configure" /\ (e.w # w.width \/ e.h # w.height) ->
                XPoll(Tail(q), [w EXCEPT !.width = e.w, !.height = e.h],
                      [out EXCEPT !.resized = TRUE, !.width = e.w, !.height = e.h])
           [] OTHER -> XPoll(Tail(q), w, out)

\* the Win32 loop: WM_CLOSE makes cube_wndproc post WM_QUIT, which the same
\* loop then reads; WM_SIZE makes cube_wndproc store the size, so that the
\* client rectangle read after the loop never differs from the stored one
RECURSIVE WinPoll(_, _, _)
WinPoll(q, w, out) ==
    IF q = <<>> THEN [win |-> w, out |-> out]
    ELSE LET e == Head(q) IN
         CASE e.type = "close" -> WinPoll(Tail(q), w, [out EXCEPT !.should_close = TRUE])
           [] e.type = "configure" ->
                WinPoll(Tail(q), [w EXCEPT !.width = e.w, !.height = e.h], out)
           [] OTHER -> WinPoll(Tail(q), w, out)

cube_poll_events_platform(w, q) ==
    CASE platform = "glx" -> XPoll(q, w, ZeroEvents) @@ [queue |-> <<>>]
      [] platform = "win32" -> WinPoll(q, w, ZeroEvents) @@ [queue |-> <<>>]
      [] OTHER -> [win |-> w, out |-> ZeroEvents, queue |-> q]

\* fossil_cube_poll_events(win, out_events) with win = <<>> or <<w>> and
\* out_events NULL (ev = FALSE) or not: the window, the queue and the events
\* struct it leaves (out = <<>>: nothing was written), and whether it polled
poll_events(win, ev, q) ==
    IF ~ev THEN [win |-> win, out |-> <<>>, queue |-> q, polled |-> FALSE]
    ELSE IF win = <<>> THEN [win |-> win, out |-> <<ZeroEvents>>, queue |-> q, polled |-> FALSE]
    ELSE LET r == cube_poll_events_platform(win[1], q)
         IN  [win |-> <<r.win>>, out |-> <<r.out>>, queue |-> r.queue, polled |-> TRUE]

\* the number of buffer swaps cube_swap_buffers_platform makes
cube_swap_buffers_platform(w) ==
    CASE platform = "glx" -> IF w.drawable THEN 1 ELSE 0
      [] platform = "win32" -> IF w.double_buffer /\ w.drawable THEN 1 ELSE 0
      [] OTHER -> 0

\* fossil_cube_swap_buffers
swap_buffers(win) == IF win = <<>> THEN 0 ELSE cube_swap_buffers_platform(win[1])

\* the window argument of a call: the application's pointer or NULL
WinArg(usewin) == IF usewin THEN window ELSE <<>>

\* what a call of the event functions did, the args of the call record:
\* swap_calls counts the calls of fossil_cube_swap_buffers, swaps the buffer
\* swaps the platform made in them
EventCall(usewin, ev, p, swap_calls, swaps, ret) ==
    [win |-> usewin, ev |-> ev, polled |-> p.polled, out |-> p.out,
     swap_calls |-> swap_calls, swaps |-> swaps, ret |-> ret]

fossil_cube_poll_events(usewin, ev) ==
    /\ ~crashed
    /\ LET p == poll_events(WinArg(usewin), ev, events)
       IN  /\ window' = IF usewin THEN p.win ELSE window
           /\ events' = p.queue
           /\ call' = [NoCall EXCEPT !.op = "poll_events",
                                     !.args = EventCall(usewin, ev, p, 0, 0, 0)]
    /\ UNCHANGED g_inited
    /\ WinUnchanged

fossil_cube_swap_buffers(usewin) ==
    /\ ~crashed
    /\ call' = [NoCall EXCEPT !.op = "swap_buffers",
                   !.args = [win |-> usewin, swaps |-> swap_buffers(WinArg(usewin))]]
    /\ UNCHANGED <<g_inited, window, events>>
    /\ WinUnchanged

\* ev && ev->should_close
FrameCloses(ev, out) == ev /\ out[1].should_close

fossil_cube_frame(usewin, ev) ==
    /\ ~crashed
    /\ LET p == poll_events(WinArg(usewin), ev, events)
           closes == FrameCloses(ev, p.out)
           swaps == IF closes THEN 0 ELSE swap_buffers(p.win)
       IN  /\ window' = IF usewin THEN p.win ELSE window
           /\ events' = p.queue
           /\ call' = [NoCall EXCEPT !.op = "frame",
                          !.args = EventCall(usewin, ev, p, IF closes THEN 0 ELSE 1, swaps,
                                             IF closes THEN 0 ELSE 1)]
    /\ UNCHANGED g_inited
    /\ WinUnchanged

\* the window system queues an event for the application's window
PostEvent(e) ==
    /\ ~crashed
    /\ window # <<>>
    /\ platform # "apple"
    /\ Len(events) < MaxQueue
    /\ events' = Append(events, e)
    /\ call' = [NoCall EXCEPT !.op = "event", !.args = [event |-> e]]
    /\ UNCHANGED <<g_inited, window>>
    /\ WinUnchanged

XEvent(type, w, h) == [type |-> type, w |-> w, h |-> h]

WinInit ==
    /\ g_inited = FALSE
    /\ window = <<>>
    /\ events = <<>>

(***************************************************************************)
(* The software-framebuffer revision (src/unnamed/part_002).  g_fc.pixels  *)
(* is 0 (NULL) or the name of a heap block; a function or data pointer is  *)
(* <<>> (NULL) or <<name>>.  Result codes are named, the header of this    *)
(* revision not being in the tree.  int is 32 bits wide.                   *)
(***************************************************************************)
\* heap blocks malloc can hand out
MaxBlocks == 2

\* static fc_ctx g_fc = {0}, and what memset(&g_fc, 0, sizeof(g_fc)) leaves
ZeroCtx ==
    [w |-> 0, h |-> 0, pitch |-> 0, pixels |-> 0, present |-> <<>>, userdata |-> <<>>,
     clip_enabled |-> FALSE, initialized |-> FALSE]

\* the largest width whose product with 4 is an int
MaxWidthTimes4 == 536870911

\* 2^30: int arithmetic on 4 * width is arithmetic modulo 4 * TwoTo30
TwoTo30 == 1073741824

\* width * 4 in 32-bit two's complement
Wrap4(width) ==
    LET r == width % TwoTo30
    IN  IF r <= MaxWidthTimes4 THEN 4 * r ELSE 4 * (r - TwoTo30)

\* what the build can make of the int product width * 4: the product, or on
\* signed overflow (undefined) the wrapped value or a trap
Times4(width) ==
    IF width <= MaxWidthTimes4 /\ width >= 0 - MaxWidthTimes4 - 1
    THEN {[value |-> 4 * width, trap |-> FALSE]}
    ELSE {[value |-> Wrap4(width), trap |-> FALSE], [value |-> 0, trap |-> TRUE]}

\* what malloc((size_t)pitch * (size_t)height) can return while block `held`
\* is still allocated: NULL, or a block not in use; a negative pitch converts
\* to a size no allocation can satisfy
Malloc(pitch, held) ==
    {0} \cup (IF pitch < 0 THEN {} ELSE (1..MaxBlocks) \ {held})

\* a block malloc does not hold out
FreeBlock == [live |-> FALSE, bytes |-> 0, content |-> "none"]

\* malloc(sz) returned `block`: sz bytes of indeterminate content
Allocated(h, block, sz) ==
    [h EXCEPT ![block] = [live |-> TRUE, bytes |-> sz, content |-> "garbage"]]

\* memset(pixels, 0, sz) over the whole block
Zeroed(h, block) == [h EXCEPT ![block].content = "zero"]

\* free(pixels); free(NULL) does nothing
Freed(h, block) == IF block = 0 THEN h ELSE [h EXCEPT ![block] = FreeBlock]

SwUnchanged == UNCHANGED <<platform, glstate, winvars, uivars>>

\* a trap in the middle of the call `op`: the call does not return
SwTrap(op) ==
    /\ crashed' = TRUE
    /\ call' = [NoCall EXCEPT !.op = "trap", !.args = [in |-> op]]
    /\ UNCHANGED <<g_fc, heap>>

\* the state fossil_cube_shutdown leaves
ShutdownCtx(ctx) == IF ~ctx.initialized THEN ctx ELSE ZeroCtx

\* the pointers fossil_cube_shutdown passes to free
ShutdownFrees(ctx) == IF ~ctx.initialized THEN <<>> ELSE <<ctx.pixels>>

\* mul: the outcome of width * 4; block: the result of malloc
fossil_cube_init_sw(width, height, present, userdata, mul, block) ==
    /\ ~crashed
    /\ mul \in Times4(width)
    /\ LET a == [width |-> width, height |-> height, present |-> present,
                 userdata |-> userdata]
           ctx == ShutdownCtx(g_fc)
           freed == ShutdownFrees(g_fc)
           h == IF freed = <<>> THEN heap ELSE Freed(heap, freed[1])
       IN
       IF width <= 0 \/ height <= 0 \/ present = <<>>
       THEN /\ call' = [NoCall EXCEPT !.op = "init_sw",
                           !.args = a @@ [result |-> "FOSSIL_CUBE_ERR_BADARGS",
                                          freed |-> <<>>]]
            /\ UNCHANGED <<g_fc, heap, crashed>>
       ELSE IF mul.trap THEN SwTrap("init_sw")
       ELSE /\ block \in Malloc(mul.value, ctx.pixels)
            /\ IF block = 0
               THEN /\ g_fc' = ZeroCtx
                    /\ heap' = h
                    /\ call' = [NoCall EXCEPT !.op = "init_sw",
                                   !.args = a @@ [result |-> "FOSSIL_CUBE_ERR_OOM",
                                                  freed |-> freed]]
               ELSE /\ g_fc' = [ctx EXCEPT !.w = width, !.h = height, !.pitch = mul.value,
                                           !.present = present, !.userdata = userdata,
                                           !.clip_enabled = FALSE, !.pixels = block,
                                           !.initialized = TRUE]
                    /\ heap' = Zeroed(Allocated(h, block, mul.value * height), block)
                    /\ call' = [NoCall EXCEPT !.op = "init_sw",
                                   !.args = a @@ [result |-> "FOSSIL_CUBE_OK",
                                                  freed |-> freed]]
            /\ UNCHANGED crashed
    /\ SwUnchanged

fossil_cube_shutdown_sw ==
    /\ ~crashed
    /\ g_fc' = ShutdownCtx(g_fc)
    /\ heap' = IF g_fc.initialized THEN Freed(heap, g_fc.pixels) ELSE heap
    /\ call' = [NoCall EXCEPT !.op = "shutdown_sw",
                              !.args = [freed |-> ShutdownFrees(g_fc)]]
    /\ UNCHANGED crashed
    /\ SwUnchanged

fossil_cube_resize(new_width, new_height, mul, block) ==
    /\ ~crashed
    /\ mul \in Times4(new_width)
    /\ LET a == [width |-> new_width, height |-> new_height]
       IN
       IF ~g_fc.initialized
       THEN /\ call' = [NoCall EXCEPT !.op = "resize",
                           !.args = a @@ [result |-> "FOSSIL_CUBE_ERR_NOTINIT"]]
            /\ UNCHANGED <<g_fc, heap, crashed>>
       ELSE IF new_width <= 0 \/ new_height <= 0
       THEN /\ call' = [NoCall EXCEPT !.op = "resize",
                           !.args = a @@ [result |-> "FOSSIL_CUBE_ERR_BADARGS"]]
            /\ UNCHANGED <<g_fc, heap, crashed>>
       ELSE IF mul.trap THEN SwTrap("resize")
       ELSE /\ block \in Malloc(mul.value, g_fc.pixels)
            /\ IF block = 0
               THEN /\ g_fc' = g_fc
                    /\ heap' = heap
                    /\ call' = [NoCall EXCEPT !.op = "resize",
                                   !.args = a @@ [result |-> "FOSSIL_CUBE_ERR_OOM"]]
               ELSE /\ g_fc' = [g_fc EXCEPT !.pixels = block, !.w = new_width,
                                            !.h = new_height, !.pitch = mul.value,
                                            !.clip_enabled = FALSE]
                    /\ heap' = Zeroed(Freed(Allocated(heap, block, mul.value * new_height),
                                            g_fc.pixels), block)
                    /\ call' = [NoCall EXCEPT !.op = "resize",
                                   !.args = a @@ [result |-> "FOSSIL_CUBE_OK"]]
            /\ UNCHANGED crashed
    /\ SwUnchanged

\* the arguments of one call of the present callback
Presented(ctx) ==
    [pixels |-> ctx.pixels, w |-> ctx.w, h |-> ctx.h, pitch |-> ctx.pitch,
     userdata |-> ctx.userdata]

\* the calls of the present callback fossil_cube_end_frame makes
end_frame(ctx) ==
    IF ~ctx.initialized \/ ctx.present = <<>> THEN <<>> ELSE <<Presented(ctx)>>

fossil_cube_end_frame ==
    /\ ~crashed
    /\ call' = [NoCall EXCEPT !.op = "end_frame", !.args = [presented |-> end_frame(g_fc)]]
    /\ UNCHANGED <<g_fc, heap, crashed>>
    /\ SwUnchanged

\* fossil_cube_clear(r, g, b, a) stores the packed colour in each of the
\* w * h pixels from g_fc.pixels on.  A store beyond the block is undefined:
\* the call traps (trap) or returns with the stores made.
fossil_cube_clear(rgba, trap) ==
    /\ ~crashed
    /\ IF ~g_fc.initialized
       THEN /\ ~trap
            /\ call' = [NoCall EXCEPT !.op = "clear", !.args = [rgba |-> rgba, stores |-> 0]]
            /\ UNCHANGED <<g_fc, heap, crashed>>
       ELSE LET count == g_fc.w * g_fc.h
                fits == count <= heap[g_fc.pixels].bytes \div 4
            IN  IF trap
                THEN ~fits /\ SwTrap("clear")
                ELSE /\ heap' = [heap EXCEPT ![g_fc.pixels].content =
                                     IF rgba = <<0, 0, 0, 0>> THEN "zero" ELSE "written"]
                     /\ call' = [NoCall EXCEPT !.op = "clear",
                                    !.args = [rgba |-> rgba, stores |-> count]]
                     /\ UNCHANGED <<g_fc, crashed>>
    /\ SwUnchanged

SwInit ==
    /\ g_fc = ZeroCtx
    /\ heap = [b \in 1..MaxBlocks |-> FreeBlock]

(***************************************************************************)
(* The immediate-mode widget revision (src/code/logic/cube.c from line     *)
(* 860).  Lengths are in half pixels: every float the layout computes with *)
(* the default style is a multiple of 0.5.  A string pointer is <<>>       *)
(* (NULL) or <<chars>>.  An unsigned int is its two 16-bit halves.  Of the *)
(* three mouse buttons only the left one (index 0) is kept, the only one   *)
(* the widgets read.  The quads the widgets push are not kept.             *)
(***************************************************************************)
\* s->padding = 8.0f
StylePadding == 8

\* s->item_spacing = 6.0f
StyleItemSpacing == 6

\* s->font_px = 14.0f; glyph_h = font_px
StyleFontPx == 14

\* h *= 16777619u
FnvPrime == 16777619

TwoTo16 == 65536

TwoTo24 == 16777216

\* pixels to half pixels
Hp(px) == 2 * px

\* an unsigned int below 2^31 by its halves
U32(n) == [hi |-> n \div TwoTo16, lo |-> n % TwoTo16]

\* 2166136261u
FnvOffsetBasis == [hi |-> 33052, lo |-> 40389]

\* the characters the labels are made of: (unsigned char)ch
CharCode ==
    [ch \in {"\t", " ", "1", "2", "3", "O", "K", "b", "u", "t", "o", "n"} |->
        CASE ch = "\t" -> 9 [] ch = " " -> 32 [] ch = "1" -> 49 [] ch = "2" -> 50
          [] ch = "3" -> 51 [] ch = "O" -> 79 [] ch = "K" -> 75 [] ch = "b" -> 98
          [] ch = "u" -> 117 [] ch = "t" -> 116 [] ch = "o" -> 111 [] ch = "n" -> 110]

\* a ^ b on non-negative integers
RECURSIVE BitXor(_, _)
BitXor(a, b) ==
    IF a = 0 THEN b
    ELSE IF b = 0 THEN a
    ELSE ((a + b) % 2) + 2 * BitXor(a \div 2, b \div 2)

\* h ^= (unsigned char)ch
XorChar(h, code) == [h EXCEPT !.lo = BitXor(h.lo, code)]

\* h *= 16777619u, modulo 2^32
MulPrime(h) ==
    LET plo == FnvPrime % TwoTo24
        phi == FnvPrime \div TwoTo24
        t == h.lo * plo
    IN  [lo |-> t % TwoTo16,
         hi |-> (h.hi * plo + t \div TwoTo16 + phi * (h.lo % 256) * 256) % TwoTo16]

\* while(*s){ h ^= (unsigned char)(*s++); h *= 16777619u; }
RECURSIVE HashLoop(_, _)
HashLoop(h, chars) ==
    IF chars = <<>> THEN h
    ELSE HashLoop(MulPrime(XorChar(h, CharCode[Head(chars)])), Tail(chars))

hash_str(str, seed) ==
    LET h == HashLoop(IF seed # 0 THEN U32(seed) ELSE FnvOffsetBasis, str[1])
    IN  IF h = U32(0) THEN U32(1) ELSE h

\* next_widget_id with c->panel.id_seed = seed before the call; label ? label : ""
next_widget_id(seed, label) == hash_str(IF label # <<>> THEN label ELSE <<<<>>>>, seed + 1)

\* the width of one character in units of font_px / 8
GlyphUnits(ch) == IF ch = "\t" THEN 24 ELSE IF ch = " " THEN 4 ELSE 6

RECURSIVE TextUnits(_)
TextUnits(chars) == IF chars = <<>> THEN 0 ELSE GlyphUnits(Head(chars)) + TextUnits(Tail(chars))

\* fossil_cube_text_width, in half pixels
fossil_cube_text_width(text) ==
    IF text = <<>> THEN 0 ELSE (TextUnits(text[1]) * Hp(StyleFontPx)) \div 8

fossil_cube_rect_xywh(x, y, w, h) == [x |-> x, y |-> y, w |-> w, h |-> h]

mouse_in_rect(in, r) ==
    /\ in.mouse_pos.x >= r.x /\ in.mouse_pos.x <= r.x + r.w
    /\ in.mouse_pos.y >= r.y /\ in.mouse_pos.y <= r.y + r.h

\* a fossil_cube_input
Input(x, y, down, clicked) ==
    [mouse_pos |-> [x |-> x, y |-> y], mouse_down |-> down, mouse_clicked |-> clicked]

\* memset(o, 0, sizeof(*o)) in fossil_cube_create_context
ZeroUi ==
    [panel_active |-> FALSE, panel_x |-> 0, panel_y |-> 0, cursor_x |-> 0, cursor_y |-> 0,
     id_seed |-> 0, hot_id |-> U32(0), active_id |-> U32(0), mouse_down_prev |-> FALSE,
     input |-> Input(0, 0, FALSE, FALSE)]

\* the rest of the model does not move while the widget library runs
UiUnchanged == UNCHANGED <<platform, glstate, crashed, winvars, swvars>>

\* fossil_cube_new_frame(ctx, in, dt): in is <<>> (NULL) or <<input>>
new_frame(c, in) ==
    LET c1 == IF in = <<>> THEN c ELSE [c EXCEPT !.input = in[1]]
        c2 == [c1 EXCEPT !.id_seed = 0, !.hot_id = U32(0)]
    IN  IF in = <<>> THEN c2
        ELSE [c2 EXCEPT !.input.mouse_clicked =
                            IF ~c.mouse_down_prev /\ c1.input.mouse_down THEN TRUE ELSE @,
                        !.mouse_down_prev = c1.input.mouse_down]

fossil_cube_new_frame(in) ==
    /\ app.pc = "idle"
    /\ ui' = new_frame(ui, in)
    /\ app' = [app EXCEPT !.pc = "frame"]
    /\ call' = [NoCall EXCEPT !.op = "new_frame", !.args = [in |-> in]]
    /\ UNCHANGED armed
    /\ UiUnchanged

\* the close box of a window at x, y of width w
CloseBox(x, y, w) ==
    fossil_cube_rect_xywh(x + w - Hp(StyleFontPx), y + Hp(2), Hp(StyleFontPx - 4),
                          Hp(StyleFontPx - 4))

\* fossil_cube_begin_window(ctx, title, x, y, w, h, open_opt): open_opt is
\* <<>> (NULL) or <<*open_opt>>; open_out is what it leaves in *open_opt
fossil_cube_begin_window(x, y, w, h, open_opt) ==
    /\ app.pc = "frame"
    /\ IF open_opt # <<>> /\ ~open_opt[1]
       THEN /\ ui' = [ui EXCEPT !.panel_active = FALSE]
            /\ call' = [NoCall EXCEPT !.op = "begin_window",
                           !.args = [ret |-> 0, open_out |-> open_opt]]
       ELSE /\ ui' = [ui EXCEPT !.panel_active = TRUE, !.panel_x = x, !.panel_y = y,
                                !.cursor_x = x + Hp(StylePadding),
                                !.cursor_y = y + Hp(StylePadding) + Hp(StyleFontPx)
                                               + Hp(StyleItemSpacing)]
            /\ call' = [NoCall EXCEPT !.op = "begin_window",
                           !.args = [ret |-> 1,
                                     open_out |->
                                        IF /\ open_opt # <<>>
                                           /\ mouse_in_rect(ui.input, CloseBox(x, y, w))
                                           /\ ui.input.mouse_clicked
                                        THEN <<FALSE>> ELSE open_opt]]
    /\ app' = [app EXCEPT !.pc = "window", !.next = 1]
    /\ UNCHANGED armed
    /\ UiUnchanged

fossil_cube_end_window ==
    /\ app.pc = "window"
    /\ app.next > Len(app.labels)
    /\ ui' = [ui EXCEPT !.panel_active = FALSE]
    /\ app' = [app EXCEPT !.pc = "idle"]
    /\ call' = [NoCall EXCEPT !.op = "end_window"]
    /\ UNCHANGED armed
    /\ UiUnchanged

\* the rectangle fossil_cube_button lays the button out in
ButtonRect(c, label) ==
    fossil_cube_rect_xywh(c.cursor_x, c.cursor_y,
                          fossil_cube_text_width(label) + 2 * Hp(StylePadding),
                          Hp(StyleFontPx) + Hp(StylePadding) \div 2)

\* advance_cursor(c, h)
advance_cursor(c, h) ==
    [c EXCEPT !.cursor_y = @ + h, !.cursor_x = c.panel_x + Hp(StylePadding)]

\* the button is active and the left mouse button is up
Released(c, id) == c.active_id = id /\ ~c.input.mouse_down

\* fossil_cube_button on the Ctx c: the Ctx it leaves and what it returns
button(c, label) ==
    IF ~c.panel_active THEN [c |-> c, pressed |-> 0, laid_out |-> FALSE]
    ELSE LET id == next_widget_id(c.id_seed, IF label # <<>> THEN label
                                              ELSE <<<<"b", "u", "t", "t", "o", "n">>>>)
             r == ButtonRect(c, label)
             hovered == mouse_in_rect(c.input, r)
             c1 == [c EXCEPT !.id_seed = @ + 1, !.hot_id = IF hovered THEN id ELSE @]
             c2 == IF hovered /\ c1.input.mouse_clicked THEN [c1 EXCEPT !.active_id = id]
                   ELSE c1
             c3 == IF Released(c2, id) THEN [c2 EXCEPT !.active_id = U32(0)] ELSE c2
         IN  [c |-> advance_cursor(c3, r.h + Hp(StyleItemSpacing)),
              pressed |-> IF Released(c2, id) /\ hovered THEN 1 ELSE 0,
              laid_out |-> TRUE, id |-> id, hovered |-> hovered]

\* the button that holds the press after button k has seen the input: the
\* one whose rectangle the mouse was in when the left-click flag was set,
\* until it has seen the left mouse button up
Arm(k, out, in) ==
    LET a == IF out.laid_out /\ out.hovered /\ in.mouse_clicked THEN k ELSE armed
    IN  IF out.laid_out /\ a = k /\ ~in.mouse_down THEN 0 ELSE a

\* the application's k-th button of the frame
fossil_cube_button(k) ==
    /\ app.pc = "window"
    /\ k = app.next
    /\ k <= Len(app.labels)
    /\ LET out == button(ui, app.labels[k])
       IN  /\ ui' = out.c
           /\ armed' = Arm(k, out, ui.input)
           /\ call' = [NoCall EXCEPT !.op = "button",
                          !.args = [k |-> k, ret |-> out.pressed, laid_out |-> out.laid_out,
                                    hovered |-> out.laid_out /\ out.hovered,
                                    was_armed |-> armed]]
    /\ app' = [app EXCEPT !.next = k + 1]
    /\ UiUnchanged

\* the buttons an application shows, in the order it calls them every frame
Layouts ==
    {<< <<<<"1">>>>, <<<<"2">>>> >>,
     << <<<<"O", "K">>>>, <<>> >>}

\* no context yet
UiInit ==
    /\ ui = ZeroUi
    /\ app = [pc |-> "none", next |-> 1, labels |-> <<>>]
    /\ armed = 0

\* fossil_cube_create_context, by an application that will show `labels`
fossil_cube_create_context(labels) ==
    /\ app.pc = "none"
    /\ ui' = ZeroUi
    /\ app' = [pc |-> "idle", next |-> 1, labels |-> labels]
    /\ call' = [NoCall EXCEPT !.op = "create_context"]
    /\ UNCHANGED armed
    /\ UiUnchanged

(***************************************************************************)
(* Initial state and the inputs the model draws                            *)
(***************************************************************************)
GLInit ==
    /\ platform \in Platforms
    /\ g = ZeroState
    /\ pgl = [n \in SymbolNames |-> NullProc]
    /\ s_lib = FALSE
    /\ s_getproc = FALSE
    /\ gl_error = GL_NO_ERROR
    /\ gl_objs = [k \in ObjectKinds |-> {}]
    /\ handles = [h \in HandleTypes |-> NoHandle]
    /\ crashed = FALSE
    /\ call = NoCall

Init == GLInit /\ WinInit /\ SwInit /\ UiInit

Str(chars) == <<chars>>

Version46 == Str(<<"4", ".", "6", ".", "0", " ", "N", "V">>)

Version33 == Str(<<"3", ".", "3">>)

Config(loader, major, minor) ==
    <<[custom_loader |-> loader, require_gl_version_major |-> major,
       require_gl_version_minor |-> minor]>>

Env(lib, getproc, ext, core, version) ==
    [lib |-> lib, getproc |-> getproc, ext |-> ext, core |-> core, version |-> version]

\* a platform that resolves every entry point / none
FullEnv(version) == Env(TRUE, TRUE, SymbolNames, SymbolNames, version)

BareEnv(version) == Env(FALSE, FALSE, {}, {}, version)

HandleArgs(h) == {"NULL", h}

InfoLogs == {<<>>, Str("buf")}

InfoLogSizes == {0, 64}

Sources == {<<>>, Str("src")}

Wheres == {<<>>, Str("draw")}

(***************************************************************************)
(* Steps: each operation with its inputs drawn from the sets given.  What  *)
(* the driver does in the call (the name handed back, the compile, link or *)
(* framebuffer status, the error raised) is drawn from sets as well.       *)
(***************************************************************************)
InitStep(cfgs, envs) ==
    /\ \E cfg \in cfgs, env \in envs : fossil_cube_init(cfg, env)
    /\ UNCHANGED <<winvars, swvars, uivars>>

CheckErrorStep(wheres) ==
    /\ \E where \in wheres : fossil_cube_check_gl_error(where)
    /\ UNCHANGED <<winvars, swvars, uivars>>

PassThroughStep(fns, errs) ==
    /\ \E fn \in fns, e \in errs : PassThrough(fn, e)
    /\ UNCHANGED <<winvars, swvars, uivars>>

ShaderCreateStep(types, srcs, outs, logs, sizes, names, statuses, errs) ==
    /\ \E type \in types, src \in srcs, out \in outs, log \in logs, size \in sizes,
          sh \in names, compiled \in statuses, e \in errs :
          fossil_cube_shader_create(type, src, out, log, size, sh, compiled, e)
    /\ UNCHANGED <<winvars, swvars, uivars>>

ProgramLinkStep(arrays, counts, outs, logs, sizes, names, statuses, errs) ==
    /\ \E shaders \in arrays, count \in counts, out \in outs, log \in logs, size \in sizes,
          prg \in names, linked \in statuses, e \in errs :
          fossil_cube_program_link(shaders, count, out, log, size, prg, linked, e)
    /\ UNCHANGED <<winvars, swvars, uivars>>

VboCreateStep(outs, names, errs) ==
    /\ \E out \in outs, id \in names, e \in errs : fossil_cube_vbo_create(out, id, e)
    /\ UNCHANGED <<winvars, swvars, uivars>>

EboCreateStep(outs, names, errs) ==
    /\ \E out \in outs, id \in names, e \in errs : fossil_cube_ebo_create(out, id, e)
    /\ UNCHANGED <<winvars, swvars, uivars>>

BufferSubdataStep(errs) ==
    /\ \E e \in errs : fossil_cube_buffer_subdata(e)
    /\ UNCHANGED <<winvars, swvars, uivars>>

VaoCreateStep(outs, names, errs) ==
    /\ \E out \in outs, id \in names, e \in errs : fossil_cube_vao_create(out, id, e)
    /\ UNCHANGED <<winvars, swvars, uivars>>

Tex2dCreateStep(sizes, outs, names, errs) ==
    /\ \E w \in sizes, h \in sizes, out \in outs, id \in names, e \in errs :
          fossil_cube_tex2d_create(w, h, out, id, e)
    /\ UNCHANGED <<winvars, swvars, uivars>>

FboCreateStep(texs, depths, outs, names, statuses, errs) ==
    /\ \E color_tex \in texs, depth_bits \in depths, out \in outs, fbo \in names,
          rbo \in names, status \in statuses, e \in errs :
          fossil_cube_fbo_create_color_tex(color_tex, depth_bits, out, fbo, rbo, status, e)
    /\ UNCHANGED <<winvars, swvars, uivars>>

ShaderDestroyStep ==
    /\ \E sh \in HandleArgs("shader") : fossil_cube_shader_destroy(sh)
    /\ UNCHANGED <<winvars, swvars, uivars>>

ProgramDestroyStep ==
    /\ \E prg \in HandleArgs("program") : fossil_cube_program_destroy(prg)
    /\ UNCHANGED <<winvars, swvars, uivars>>

VboDestroyStep ==
    /\ \E v \in HandleArgs("vbo") : fossil_cube_vbo_destroy(v)
    /\ UNCHANGED <<winvars, swvars, uivars>>

EboDestroyStep ==
    /\ \E eb \in HandleArgs("ebo") : fossil_cube_ebo_destroy(eb)
    /\ UNCHANGED <<winvars, swvars, uivars>>

VaoDestroyStep ==
    /\ \E vao \in HandleArgs("vao") : fossil_cube_vao_destroy(vao)
    /\ UNCHANGED <<winvars, swvars, uivars>>

Tex2dDestroyStep ==
    /\ \E t \in HandleArgs("tex2d") : fossil_cube_tex2d_destroy(t)
    /\ UNCHANGED <<winvars, swvars, uivars>>

FboDestroyStep ==
    /\ \E f \in HandleArgs("fbo") : fossil_cube_fbo_destroy(f)
    /\ UNCHANGED <<winvars, swvars, uivars>>

ShutdownStep ==
    /\ fossil_cube_shutdown
    /\ UNCHANGED <<winvars, swvars, uivars>>

NoError == {GL_NO_ERROR}

FboStatuses == {GL_FRAMEBUFFER_COMPLETE, GL_FRAMEBUFFER_UNSUPPORTED}

\* every name the driver may hand back, and 0 for none
Names == 0..MaxName

(***************************************************************************)
(* Spec: every operation of the GL-wrapper revision that reads or writes   *)
(* the last-error string or the GL error flag.  Only buffer objects come   *)
(* to life here (the driver hands no name to the other glGen* and          *)
(* glCreate* calls); SpecHandles and SpecShaders create the other kinds.   *)
(***************************************************************************)
Cfgs == {Config(<<>>, 4, 0)}

Envs == {FullEnv(Version46), FullEnv(Version33), BareEnv(Version46)}

Next ==
    \/ InitStep(Cfgs, Envs)
    \/ ShutdownStep
    \/ CheckErrorStep({Str("draw")})
    \/ PassThroughStep({"glDrawArrays"}, SomeErrors)
    \/ ShaderCreateStep({GL_VERTEX_SHADER}, {Str("src")}, {"shader"}, {<<>>}, {0}, {0},
                        {FALSE}, NoError)
    \/ ProgramLinkStep({<<"shader">>}, {1}, {"program"}, {<<>>}, {0}, {0}, {FALSE}, NoError)
    \/ VboCreateStep({"vbo"}, Names, SomeErrors)
    \/ EboCreateStep({"ebo"}, {0}, NoError)
    \/ BufferSubdataStep(SomeErrors)
    \/ VaoCreateStep({"vao"}, {0}, NoError)
    \/ Tex2dCreateStep({1}, {"tex2d"}, {0}, NoError)
    \/ FboCreateStep({1}, {0}, {"fbo"}, {0}, {GL_FRAMEBUFFER_UNSUPPORTED}, NoError)
    \/ ShaderDestroyStep
    \/ ProgramDestroyStep
    \/ VboDestroyStep
    \/ EboDestroyStep
    \/ VaoDestroyStep
    \/ Tex2dDestroyStep
    \/ FboDestroyStep

Spec == Init /\ [][Next]_vars

(***************************************************************************)
(* SpecHandles: creating and destroying handles of every type              *)
(***************************************************************************)
HandlesInit == Init /\ platform = "glx"

HandlesNext ==
    \/ InitStep({NullCfg}, {FullEnv(Version46)})
    \/ ShaderCreateStep({GL_VERTEX_SHADER}, {Str("src")}, {"shader"}, {<<>>}, {0}, Names,
                        {TRUE}, NoError)
    \/ ProgramLinkStep({<<"shader">>}, {1}, {"program"}, {<<>>}, {0}, Names, {TRUE}, NoError)
    \/ VboCreateStep({"vbo"}, Names, NoError)
    \/ EboCreateStep({"ebo"}, Names, NoError)
    \/ VaoCreateStep({"vao"}, Names, NoError)
    \/ Tex2dCreateStep({1}, {"tex2d"}, Names, NoError)
    \/ FboCreateStep({1}, {0}, {"fbo"}, Names, {GL_FRAMEBUFFER_COMPLETE}, NoError)
    \/ ShaderDestroyStep
    \/ ProgramDestroyStep
    \/ VboDestroyStep
    \/ EboDestroyStep
    \/ VaoDestroyStep
    \/ Tex2dDestroyStep
    \/ FboDestroyStep

SpecHandles == HandlesInit /\ [][HandlesNext]_vars

(***************************************************************************)
(* Destroy functions                                                       *)
(***************************************************************************)
\* the destroy functions and the GL delete each one calls
DeleteFn ==
    [shader_destroy |-> "glDeleteShader", program_destroy |-> "glDeleteProgram",
     vbo_destroy |-> "glDeleteBuffers", ebo_destroy |-> "glDeleteBuffers",
     vao_destroy |-> "glDeleteVertexArrays", tex2d_destroy |-> "glDeleteTextures",
     fbo_destroy |-> "glDeleteFramebuffers"]

DestroyOps == DOMAIN DeleteFn

\* the step is a call of a destroy function that returned
IsDestroyCall == call'.op \in DestroyOps /\ ~crashed'

\* C1: a destroy function of any of the seven handle types issues no GL
\* delete and changes no handle when its argument is NULL or a handle with
\* id 0; otherwise it issues exactly one GL delete, the one of its type and
\* for the handle's id, and leaves the handle's id 0 - so the next destroy
\* of that handle deletes nothing.
C1_DestroyDeletesOnce ==
    [][IsDestroyCall =>
         LET h == call'.args.handle IN
         IF h = "NULL" \/ handles[h].id = 0
         THEN call'.gl_calls = <<>> /\ handles' = handles /\ gl_objs' = gl_objs
         ELSE /\ call'.gl_calls = <<GLCall(DeleteFn[call'.op], handles[h].id)>>
              /\ handles'[h].id = 0
              /\ \A o \in HandleTypes \ {h} : handles'[o] = handles[o]]_vars

\* a destroy function has just deleted the object of a framebuffer handle
C1_Witness ==
    /\ call.op = "fbo_destroy"
    /\ call.gl_calls = <<GLCall("glDeleteFramebuffers", call.args.id)>>
    /\ call.args.id # 0
    /\ handles["fbo"].id = 0

(***************************************************************************)
(* SpecVersion: sequences of fossil_cube_init and fossil_cube_shutdown     *)
(* over configurations and GL_VERSION strings                              *)
(***************************************************************************)
\* the largest version number asked for in a configuration
MaxRequired == 4

RequiredMajors == {-1, 0, 3, MaxRequired}

RequiredMinors == {0, 7}

VersionCfgs ==
    {NullCfg} \cup {Config(<<>>, major, minor) : major \in RequiredMajors,
                                                 minor \in RequiredMinors}

\* glGetString(GL_VERSION): NULL without a context, desktop strings, an ES
\* string, one without a minor number
VersionStrings ==
    {<<>>, Version46, Version33, Str(<<"3", ".", "1", "0">>), Str(<<"4">>),
     Str(<<"O", "p", "e", "n", "G", "L", " ", "E", "S", " ", "3", ".", "2">>)}

VersionEnvs == {FullEnv(v) : v \in VersionStrings} \cup {BareEnv(Version46)}

VersionNext ==
    \/ InitStep(VersionCfgs, VersionEnvs)
    \/ ShutdownStep

SpecVersion == Init /\ [][VersionNext]_vars

\* C2: over sequences of fossil_cube_init and fossil_cube_shutdown,
\* fossil_cube_get_caps returns a snapshot (not NULL) exactly when the most
\* recent of these calls was a fossil_cube_init that returned FOSSIL_CUBE_OK:
\* a shutdown, or an init that failed, leaves NULL even after an earlier
\* successful init.
C2_CapsIffLastInitOk ==
    (fossil_cube_get_caps # <<>>) <=> (call.op = "init" /\ call.ret = FOSSIL_CUBE_OK)

\* an init has failed in a library that was initialized, and there is no
\* snapshot any more
C2_Witness ==
    /\ call.op = "init"
    /\ call.ret = FOSSIL_CUBE_ERR_VERSION
    /\ call.args.initialized_before
    /\ fossil_cube_get_caps = <<>>

\* (a1, a2) before (b1, b2) in lexicographic order
LexLess(a1, a2, b1, b2) == a1 < b1 \/ (a1 = b1 /\ a2 < b2)

\* C4: a fossil_cube_init whose entry points all load compares versions only
\* when cfg is not NULL and cfg->require_gl_version_major > 0.  Then it returns
\* FOSSIL_CUBE_ERR_VERSION, records a message and stays uninitialized exactly
\* when the (major, minor) parsed from GL_VERSION is lexicographically smaller
\* than the required pair, and returns FOSSIL_CUBE_OK (initialized) otherwise;
\* with cfg NULL or a major <= 0 it returns FOSSIL_CUBE_OK whatever the minor.
C4_VersionCheck ==
    [][(call'.op = "init" /\ call'.ret # FOSSIL_CUBE_ERR_LOAD_FUNC) =>
         LET cfg == call'.cfg
             old == /\ cfg # <<>>
                    /\ cfg[1].require_gl_version_major > 0
                    /\ LexLess(g'.caps.major, g'.caps.minor,
                               cfg[1].require_gl_version_major,
                               cfg[1].require_gl_version_minor)
         IN  /\ call'.version_checked
                  => (cfg # <<>> /\ cfg[1].require_gl_version_major > 0)
             /\ IF old
                THEN /\ call'.ret = FOSSIL_CUBE_ERR_VERSION
                     /\ call'.set_error
                     /\ g'.last_error # NoMessage
                     /\ ~g'.initialized
                ELSE /\ call'.ret = FOSSIL_CUBE_OK
                     /\ g'.initialized]_vars

\* a version check has failed on the minor number alone
C4_Witness ==
    /\ call.op = "init"
    /\ call.ret = FOSSIL_CUBE_ERR_VERSION
    /\ call.version_checked
    /\ g.caps.major = call.cfg[1].require_gl_version_major
    /\ g.caps.minor < call.cfg[1].require_gl_version_minor
    /\ ~g.initialized

(***************************************************************************)
(* Last error                                                              *)
(***************************************************************************)
\* C3: the last-error string is sticky: once a message has been recorded, a
\* library call that records no error leaves fossil_cube_last_error()
\* returning that same message; only a call that records an error replaces it.
C3_StickyLastError ==
    [][(fossil_cube_last_error # NoMessage /\ ~call'.set_error)
         => fossil_cube_last_error' = fossil_cube_last_error]_vars

(***************************************************************************)
(* SpecLoad: fossil_cube_init over user loaders and platforms that resolve *)
(* all, some or none of the entry points                                   *)
(***************************************************************************)
FirstSymbol == RequiredSymbols[1]

LastSymbol == RequiredSymbols[Len(RequiredSymbols)]

\* custom_loader: NULL, one that resolves nothing, one name, all but one, all
UserLoaders ==
    {<<>>, <<{}>>, <<{FirstSymbol}>>, <<SymbolNames \ {LastSymbol}>>, <<SymbolNames>>}

LoadCfgs == {NullCfg} \cup {Config(ul, 0, 0) : ul \in UserLoaders}

LoadEnvs ==
    {FullEnv(Version46), BareEnv(Version46),
     Env(TRUE, FALSE, {}, SymbolNames, Version46),
     Env(TRUE, TRUE, SymbolNames \ {FirstSymbol}, {}, Version46),
     Env(TRUE, TRUE, SymbolNames \ {LastSymbol}, {LastSymbol}, Version46),
     Env(FALSE, TRUE, SymbolNames, {LastSymbol}, Version46)}

LoadNext ==
    \/ InitStep(LoadCfgs, LoadEnvs)
    \/ ShutdownStep

SpecLoad == Init /\ [][LoadNext]_vars

\* the user loader of an init call, <<>> when cfg or custom_loader is NULL
CustomLoaderOf(cfg) == IF cfg = <<>> THEN <<>> ELSE cfg[1].custom_loader

\* the custom loader returns a pointer for the name
CustomResolves(cfg, name) ==
    CustomLoaderOf(cfg) # <<>> /\ name \in CustomLoaderOf(cfg)[1]

\* C5: while fossil_cube_init resolves a required entry point, a custom_loader
\* that returns a pointer for the name wins: that pointer is the one
\* installed and the platform is not asked for the name; the platform is
\* asked only when custom_loader is NULL or returns NULL for the name.
C5_CustomLoaderWins ==
    [][call'.op = "init" =>
         \A name \in call'.tried :
            /\ CustomResolves(call'.cfg, name)
                 => (pgl'[name] = "custom" /\ name \notin call'.asked_builtin)
            /\ name \in call'.asked_builtin => ~CustomResolves(call'.cfg, name)]_vars

\* what the built-in loader of the platform returns for the name in
\* environment env, with the library and *GetProcAddress lookups lib and getproc
BuiltinResolves(name, env, lib, getproc) ==
    CASE platform = "win32" -> lib /\ ((getproc /\ name \in env.ext) \/ name \in env.core)
      [] platform = "glx" -> (getproc /\ name \in env.ext) \/ name \in env.core
      [] OTHER -> FALSE

\* C6: off Apple, fossil_cube_init returns FOSSIL_CUBE_ERR_LOAD_FUNC exactly
\* when some required entry point resolves to NULL through the custom loader
\* and through the built-in loader; it then records a non-empty message,
\* queries no capabilities, checks no version and leaves the library
\* uninitialized.
C6_LoadFailure ==
    [][(call'.op = "init" /\ platform # "apple") =>
         LET missing == {name \in SymbolNames :
                           /\ ~CustomResolves(call'.cfg, name)
                           /\ ~BuiltinResolves(name, call'.env, s_lib', s_getproc')}
         IN  /\ (call'.ret = FOSSIL_CUBE_ERR_LOAD_FUNC) <=> (missing # {})
             /\ call'.ret = FOSSIL_CUBE_ERR_LOAD_FUNC
                  => /\ call'.set_error
                     /\ fossil_cube_last_error' # NoMessage
                     /\ ~call'.queried_caps
                     /\ ~call'.version_checked
                     /\ ~g'.initialized
                     /\ fossil_cube_get_caps' = <<>>]_vars

\* an init off Apple has failed on the last entry point alone, which neither
\* the custom loader nor the platform resolves
C6_Witness ==
    /\ platform # "apple"
    /\ call.op = "init"
    /\ call.ret = FOSSIL_CUBE_ERR_LOAD_FUNC
    /\ call.tried = SymbolNames
    /\ LastSymbol \in call.asked_custom \cap call.asked_builtin
    /\ ~g.initialized

(***************************************************************************)
(* SpecErrors: fossil_cube_check_gl_error after GL calls that raise any of *)
(* the error codes, next to operations that record other messages          *)
(***************************************************************************)
ErrorsNext ==
    \/ InitStep({NullCfg}, {FullEnv(Version46), BareEnv(Version46)})
    \/ PassThroughStep({"glDrawArrays"}, RaisedErrors)
    \/ CheckErrorStep(Wheres)
    \/ BufferSubdataStep(SomeErrors)
    \/ ShaderCreateStep({GL_VERTEX_SHADER}, {Str("src")}, {"shader"}, {<<>>}, {0}, {0},
                        {FALSE}, NoError)

SpecErrors == Init /\ [][ErrorsNext]_vars

ShadersNext ==
    \/ InitStep({NullCfg}, {FullEnv(Version46)})
    \/ ShaderCreateStep({GL_FRAGMENT_SHADER}, Sources, HandleArgs("shader"),
                        InfoLogs, InfoLogSizes, Names, BOOLEAN, NoError)
    \/ ProgramLinkStep({<<>>, <<"shader">>}, {0, 1}, HandleArgs("program"),
                       InfoLogs, InfoLogSizes, Names, BOOLEAN, NoError)
    \/ ShaderDestroyStep
    \/ ProgramDestroyStep

SpecShaders == HandlesInit /\ [][ShadersNext]_vars

\* the GL object kind and the handle a create call is about
CreatedKind == [shader_create |-> "shader", program_link |-> "program"]

\* the arguments fossil_cube_shader_create / fossil_cube_program_link reject
BadArgs(op, a) ==
    IF op = "shader_create"
    THEN a.src = <<>> \/ a.out = "NULL"
    ELSE a.shaders = <<>> \/ a.count <= 0 \/ a.out = "NULL"

\* C10: fossil_cube_shader_create and fossil_cube_program_link leave no GL
\* object behind on failure.  They return FOSSIL_CUBE_ERR_BAD_ARG exactly on a
\* NULL src / out_shader, or a NULL shaders / count <= 0 / NULL out_prog, and
\* then create nothing; when the compile or link fails the object the call
\* created is deleted, no handle changes, a message is recorded and
\* FOSSIL_CUBE_ERR_GL_ERROR is returned; on FOSSIL_CUBE_OK the out handle holds
\* the id of one object that did not exist before and is live now, and nothing
\* else was created.  A NULL info_log changes none of this, and no call into
\* a fully loaded library dies.
C10_NoLeakOnFailure ==
    [][/\ (crashed' /\ ~crashed) => ~Loaded(SymbolNames)
       /\ (call'.op \in DOMAIN CreatedKind /\ ~crashed') =>
            LET kind == CreatedKind[call'.op]
                a == call'.args
                made == gl_objs'[kind] \ gl_objs[kind]
            IN  /\ call'.ret \in {FOSSIL_CUBE_ERR_BAD_ARG, FOSSIL_CUBE_ERR_GL_ERROR,
                                  FOSSIL_CUBE_OK}
                /\ (call'.ret = FOSSIL_CUBE_ERR_BAD_ARG) <=> BadArgs(call'.op, a)
                /\ call'.ret = FOSSIL_CUBE_ERR_BAD_ARG
                     => call'.gl_calls = <<>> /\ gl_objs' = gl_objs /\ handles' = handles
                /\ call'.ret = FOSSIL_CUBE_ERR_GL_ERROR
                     => /\ gl_objs' = gl_objs
                        /\ handles' = handles
                        /\ call'.set_error
                        /\ fossil_cube_last_error' # NoMessage
                /\ call'.ret = FOSSIL_CUBE_OK
                     => /\ Cardinality(made) = 1
                        /\ handles'[a.out].id \in made
                        /\ handles'[a.out].id # 0
                        /\ \A k \in ObjectKinds \ {kind} : gl_objs'[k] = gl_objs[k]
                        /\ gl_objs[kind] \subseteq gl_objs'[kind]]_vars

\* a link with a NULL info_log has failed after glCreateProgram made a
\* program, and the program is gone
C10_Witness ==
    /\ call.op = "program_link"
    /\ call.ret = FOSSIL_CUBE_ERR_GL_ERROR
    /\ call.args.info_log = <<>>
    /\ Len(call.gl_calls) = 2
    /\ call.gl_calls[1].id # 0
    /\ call.gl_calls[1].id \notin gl_objs["program"]
    /\ fossil_cube_last_error = MsgProgramFailed

(***************************************************************************)
(* SpecWin: the windowing revision - one window created and destroyed,     *)
(* events queued by the window system, polled, and frames presented        *)
(***************************************************************************)
WindowCfgs == {<<>>, WindowConfig(0, 0, TRUE), WindowConfig(320, 200, FALSE)}

XEvents ==
    {XEvent("close", 0, 0), XEvent("client", 0, 0), XEvent("configure", 320, 200),
     XEvent("configure", DefaultWidth, DefaultHeight)}

CreateStep ==
    \E cfg \in WindowCfgs, out_err \in BOOLEAN,
       fail \in {"none", "alloc"} \cup DOMAIN CreateErrors[platform] :
       fossil_cube_create(cfg, out_err, fail)

DestroyStep == \E usewin \in BOOLEAN : fossil_cube_destroy(usewin)

PollEventsStep == \E usewin \in BOOLEAN, ev \in BOOLEAN : fossil_cube_poll_events(usewin, ev)

SwapBuffersStep == \E usewin \in BOOLEAN : fossil_cube_swap_buffers(usewin)

FrameStep == \E usewin \in BOOLEAN, ev \in BOOLEAN : fossil_cube_frame(usewin, ev)

PostEventStep == \E e \in XEvents : PostEvent(e)

WinNext ==
    \/ fossil_cube_init_win
    \/ fossil_cube_shutdown_win
    \/ CreateStep
    \/ DestroyStep
    \/ PollEventsStep
    \/ SwapBuffersStep
    \/ FrameStep
    \/ PostEventStep

SpecWin == Init /\ [][WinNext]_vars

\* a close request for the application's window is in the queue
ClosePending == window # <<>> /\ \E i \in 1..Len(events) : events[i].type = "close"

\* C8: fossil_cube_frame(win, ev) returns 0 and does not swap buffers in
\* every call made while a close request for the window is pending; every
\* other call swaps buffers exactly once (one call of
\* fossil_cube_swap_buffers) and returns 1.
C8_FrameReturnsZeroOnClose ==
    [][call'.op = "frame" =>
         IF call'.args.win /\ ClosePending
         THEN call'.args.ret = 0 /\ call'.args.swap_calls = 0 /\ call'.args.swaps = 0
         ELSE call'.args.ret = 1 /\ call'.args.swap_calls = 1]_vars

(***************************************************************************)
(* SpecSw: the software-framebuffer revision - init, resize, shutdown and  *)
(* end_frame over good, bad and very large sizes, with allocations that    *)
(* succeed or fail                                                         *)
(***************************************************************************)
SwWidths == {0, 1, 2, TwoTo30}

SwHeights == {0, 1}

PresentFns == {<<>>, <<"present">>}

UserDatas == {<<>>, <<"userdata">>}

InitSwStep ==
    \E width \in SwWidths, height \in SwHeights, present \in PresentFns,
       userdata \in UserDatas, block \in 0..MaxBlocks :
       \E mul \in Times4(width) :
          fossil_cube_init_sw(width, height, present, userdata, mul, block)

ResizeStep ==
    \E width \in SwWidths, height \in SwHeights, block \in 0..MaxBlocks :
       \E mul \in Times4(width) : fossil_cube_resize(width, height, mul, block)

Colours == {<<0, 0, 0, 0>>, <<255, 0, 0, 255>>}

ClearStep == \E rgba \in Colours, trap \in BOOLEAN : fossil_cube_clear(rgba, trap)

SwNext ==
    \/ InitSwStep
    \/ fossil_cube_shutdown_sw
    \/ ResizeStep
    \/ fossil_cube_end_frame
    \/ ClearStep

SpecSw == Init /\ [][SwNext]_vars

\* a successful init or resize
SizedOk == call'.op \in {"init_sw", "resize"} /\ call'.args.result = "FOSSIL_CUBE_OK"

\* C9: whenever the library is initialized, fossil_cube_end_frame calls the
\* present callback exactly once, with the current pixel buffer, the width,
\* the height, the pitch - four times the width - and the userdata registered
\* at init; the width and height are those of the latest successful init or
\* resize; before init and after shutdown it never calls the callback.
C9_EndFramePresents ==
    [][/\ call'.op = "end_frame" =>
            IF g_fc.initialized
            THEN /\ Len(call'.args.presented) = 1
                 /\ call'.args.presented[1].pixels = g_fc.pixels
                 /\ call'.args.presented[1].w = g_fc.w
                 /\ call'.args.presented[1].h = g_fc.h
                 /\ call'.args.presented[1].userdata = g_fc.userdata
                 /\ call'.args.presented[1].pitch % 4 = 0
                 /\ call'.args.presented[1].pitch \div 4 = g_fc.w
            ELSE call'.args.presented = <<>>
       /\ SizedOk =>
            /\ g_fc'.initialized
            /\ g_fc'.w = call'.args.width
            /\ g_fc'.h = call'.args.height
            /\ g_fc'.userdata = IF call'.op = "init_sw" THEN call'.args.userdata
                                ELSE g_fc.userdata
       /\ (~SizedOk /\ g_fc'.initialized) =>
            /\ g_fc.initialized
            /\ g_fc'.w = g_fc.w
            /\ g_fc'.h = g_fc.h
            /\ g_fc'.userdata = g_fc.userdata
       /\ call'.op = "shutdown_sw" => ~g_fc'.initialized]_vars

\* C11: fossil_cube_init(width, height, present, userdata) of the
\* software-framebuffer revision returns FOSSIL_CUBE_ERR_BADARGS and changes
\* nothing (an initialized framebuffer included) when width <= 0, height <= 0
\* or present is NULL; otherwise it returns FOSSIL_CUBE_OK or
\* FOSSIL_CUBE_ERR_OOM: on success it has released the previous framebuffer
\* exactly once and the library is initialized with a width x height
\* framebuffer of all-zero pixels, pitch = 4 * width and clipping disabled; on
\* a failed allocation the library is left uninitialized.
C11_InitSw ==
    [][call'.op = "init_sw" =>
         LET a == call'.args IN
         IF a.width <= 0 \/ a.height <= 0 \/ a.present = <<>>
         THEN /\ a.result = "FOSSIL_CUBE_ERR_BADARGS"
              /\ g_fc' = g_fc
              /\ heap' = heap
         ELSE /\ a.result \in {"FOSSIL_CUBE_OK", "FOSSIL_CUBE_ERR_OOM"}
              /\ a.result = "FOSSIL_CUBE_OK" =>
                   /\ a.freed = (IF g_fc.initialized THEN <<g_fc.pixels>> ELSE <<>>)
                   /\ g_fc'.initialized
                   /\ g_fc'.w = a.width /\ g_fc'.h = a.height
                   /\ g_fc'.pitch % 4 = 0 /\ g_fc'.pitch \div 4 = a.width
                   /\ ~g_fc'.clip_enabled
                   /\ g_fc'.pixels # 0
                   /\ heap'[g_fc'.pixels].live
                   /\ heap'[g_fc'.pixels].bytes % 4 = 0
                   /\ heap'[g_fc'.pixels].bytes \div 4 = a.width * a.height
                   /\ heap'[g_fc'.pixels].content = "zero"
                   /\ \A b \in 1..MaxBlocks : heap'[b].live => b = g_fc'.pixels
              /\ a.result = "FOSSIL_CUBE_ERR_OOM" => ~g_fc'.initialized]_vars

(***************************************************************************)
(* SpecUi: the widget revision - an application that every frame calls     *)
(* new_frame, begin_window, its buttons in order, and end_window           *)
(***************************************************************************)
\* mouse positions in half pixels, for a window at the origin: in the first
\* button, in the second, between the two, and in the close box
MousePoints ==
    {[x |-> 20, y |-> 60], [x |-> 20, y |-> 110], [x |-> 20, y |-> 98], [x |-> 380, y |-> 10]}

UiInputs ==
    {<<>>} \cup {<<Input(p.x, p.y, down, clicked)>> :
                    p \in MousePoints, down \in BOOLEAN, clicked \in BOOLEAN}

NewFrameStep == \E in \in UiInputs : fossil_cube_new_frame(in)

BeginWindowStep ==
    \E open_opt \in {<<>>, <<FALSE>>, <<TRUE>>} :
       fossil_cube_begin_window(0, 0, Hp(200), Hp(100), open_opt)

ButtonStep == \E k \in 1..2 : fossil_cube_button(k)

CreateContextStep == \E labels \in Layouts : fossil_cube_create_context(labels)

UiNext ==
    \/ CreateContextStep
    \/ NewFrameStep
    \/ BeginWindowStep
    \/ ButtonStep
    \/ fossil_cube_end_window

SpecUi == Init /\ [][UiNext]_vars

\* C12: a call of fossil_cube_button that lays the button out returns 1 if
\* and only if that button is the active widget - the one that became active
\* in a frame where the left-click flag was set while the mouse was inside
\* its rectangle - and in the current frame the left mouse button is up
\* while the mouse is inside its rectangle; when the button is active and the
\* left mouse button is up, inside the rectangle or not, the active state is
\* cleared.
C12_ButtonPressed ==
    [][(call'.op = "button" /\ call'.args.laid_out) =>
         LET a == call'.args
             active == IF a.hovered /\ ui.input.mouse_clicked THEN a.k ELSE armed
         IN  /\ a.ret = 1 <=> (active = a.k /\ ~ui.input.mouse_down /\ a.hovered)
             /\ (active = a.k /\ ~ui.input.mouse_down) =>
                  (armed' = 0 /\ ui'.active_id = U32(0))]_vars

\* C13: fossil_cube_create(cfg, out_err) returns a non-NULL window if and
\* only if the code it stores through out_err is FOSSIL_CUBE_OK, on every
\* platform and at every failure point, where it returns NULL with the code
\* of that failure; a NULL cfg gives NULL and FOSSIL_CUBE_ERR_GENERIC; with a
\* NULL out_err the call returns the same window; and it leaves the library
\* initialized whether or not fossil_cube_init was called before.
C13_CreateReportsOk ==
    [][call'.op = "create" =>
         LET a == call'.args IN
         /\ (window' # <<>>) <=> (a.err = "FOSSIL_CUBE_OK")
         /\ a.cfg = <<>> => (window' = <<>> /\ a.err = "FOSSIL_CUBE_ERR_GENERIC")
         /\ (a.cfg # <<>> /\ a.fail # "none") =>
              (window' = <<>> /\ a.err = CreateErrors[platform][a.fail])
         /\ (a.cfg # <<>> /\ a.fail = "none") => window' # <<>>
         /\ g_inited'
         /\ ~crashed']_vars

\* a create that failed at make-current, on a library that was not initialized
C13_Witness ==
    /\ call.op = "create"
    /\ call.args.fail = "current"
    /\ ~call.args.inited_before
    /\ call.args.err = "FOSSIL_CUBE_ERR_MAKE_CURRENT"
    /\ window = <<>>
    /\ g_inited

====
